---- MODULE Spec2Model ----
(***************************************************************************)
(* Directory-size caching and background-refresh engine of                 *)
(* disk-space-view-pro.py (MetsuDiskSpaceViewer).                          *)
(*                                                                         *)
(* Paths are sequences of one-character strings ("/a/x" is                 *)
(* <<"/","a","/","x">>), time is counted in hours, sizes in abstract byte  *)
(* units.  The file system, the per-directory record files                 *)
(* (.mosFolderSize) and the per-volume snapshot files (cache_*.json) are   *)
(* state; the functions of the program are operators over that state.     *)
(***************************************************************************)
EXTENDS Integers, Sequences, FiniteSets, TLC

VARIABLES
    now,             \* time.time(), in hours
    fs,              \* directory path -> directory (identity, permissions, files)
    recs,            \* directory path -> content of its .mosFolderSize file
    cachefiles,      \* snapshot file name -> content of cache_<name>.json
    active_threads,  \* main(): mount -> slot of the thread object stored for it (0: no entry)
    task,            \* mount -> slot -> state of one update_cache_thread run
    mainloop,        \* main(): position and locals of the foreground loop
    fixer,           \* background_cache_fix(): position and locals
    obs              \* the last call made and what it returned

vars == <<now, fs, recs, cachefiles, active_threads, task, mainloop, fixer, obs>>

----------------------------------------------------------------------------
(* Program constants *)

FOLDER_CACHE_VALIDITY_HOURS == 12
DISK_CACHE_VALIDITY_HOURS == 3
TOP_N == 5

(* Bounds of the model *)

MaxTicks == 1          \* hours the clock may advance
MaxTasks == 2          \* thread objects that can exist per mount at one time
MaxInode == 5          \* inode numbers the file system hands out
MaxBuildHours == 4     \* hours the clock may advance while one rebuild is watched

StartNow == FOLDER_CACHE_VALIDITY_HOURS + 1
MaxNow == StartNow + MaxTicks

----------------------------------------------------------------------------
(* Small helpers *)

RECURSIVE SumSeq(_)
SumSeq(s) == IF s = <<>> THEN 0 ELSE Head(s) + SumSeq(Tail(s))

RECURSIVE Concat(_)
Concat(ss) == IF ss = <<>> THEN <<>> ELSE Head(ss) \o Concat(Tail(ss))

Take(s, n) == SubSeq(s, 1, IF n < Len(s) THEN n ELSE Len(s))

\* Return values: a value, None, or a raised exception.
Val(v) == [k |-> "val", v |-> v]
None == [k |-> "none"]
Raise == [k |-> "raise"]

----------------------------------------------------------------------------
(* Paths and the file system *)

\* Directory names are single characters; scandir lists them in this order.
Names == <<"p", "q", "r", "s", "t", "u", "v", "w">>

NameIdx(c) == CHOOSE i \in 1..Len(Names) : Names[i] = c

\* os.path.join(root, dir_name)
Join(p, c) == p \o <<"/", c>>

IsChild(p, q) ==
    /\ Len(q) = Len(p) + 2
    /\ SubSeq(q, 1, Len(p)) = p
    /\ q[Len(p) + 1] = "/"

IsUnder(p, q) ==      \* q is p or a descendant of p
    /\ Len(q) >= Len(p)
    /\ SubSeq(q, 1, Len(p)) = p
    /\ (Len(q) > Len(p) => q[Len(p) + 1] = "/")

Dir(dev, ino, perm, files) ==
    [exists |-> TRUE, dev |-> dev, ino |-> ino, perm |-> perm, files |-> files]

File(size, ok) == [size |-> size, ok |-> ok]

Exists(F, p) == p \in DOMAIN F /\ F[p].exists

\* A directory the process may neither list nor search.
Denied(F, p) == Exists(F, p) /\ F[p].perm = "---"

Writable(F, p) == Exists(F, p) /\ F[p].perm = "rwx"

\* [e.path for e in os.scandir(directory) if e.is_dir()], in listing order
SubdirSeq(F, p) ==
    LET cs == {i \in 1..Len(Names) : Exists(F, Join(p, Names[i]))}
        RECURSIVE Lst(_)
        Lst(S) == IF S = {} THEN <<>>
                  ELSE LET i == CHOOSE j \in S : \A k \in S : j <= k
                       IN <<Join(p, Names[i])>> \o Lst(S \ {i})
    IN Lst(cs)

Scandir(F, p) ==
    IF ~Exists(F, p) \/ Denied(F, p) THEN Raise ELSE Val(SubdirSeq(F, p))

----------------------------------------------------------------------------
(* Record files (.mosFolderSize) *)

NoFile == [kind |-> "none"]
Torn == [kind |-> "torn"]          \* empty or partially written: not JSON
Json(data) == [kind |-> "json", data |-> data]

\* Length of a file's content, as os.path.getsize and du see it.
FileLen(content) == IF content.kind = "json" THEN 1 ELSE 0

NoSignature == <<"00000000">>

\* hashlib.md5(f"{folder_path}:{st_dev}:{st_ino}").hexdigest()[:8]: the digest
\* is modelled as a token that is different for different inputs.
Md5Hex8(path, dev, ino) == <<path, dev, ino>>

calculate_folder_signature(F, folder_path) ==
    IF Exists(F, folder_path)
    THEN Md5Hex8(folder_path, F[folder_path].dev, F[folder_path].ino)
    ELSE NoSignature

RecordData(t, size, sig) ==
    [timestamp |-> t, size |-> size, signature |-> sig,
     version |-> "1.0", generated_by |-> "disk_usage_monitor_pro"]

\* cache_file.exists() raises PermissionError for a directory that cannot be
\* searched; it is called before the try block.
read_cached_folder_size(F, R, t, folder_path) ==
    IF ~Exists(F, folder_path) THEN None
    ELSE IF Denied(F, folder_path) THEN Raise
    ELSE IF R[folder_path].kind = "none" THEN None
    ELSE IF R[folder_path].kind = "torn" THEN None          \* JSONDecodeError
    ELSE LET data == R[folder_path].data IN
         IF ~({"timestamp", "size", "signature"} \subseteq DOMAIN data) THEN None
         ELSE IF t - data.timestamp > FOLDER_CACHE_VALIDITY_HOURS THEN None
         ELSE IF data.signature # calculate_folder_signature(F, folder_path) THEN None
         ELSE Val(data.size)

\* Variant that signs no record (C15).
write_cached_folder_size_Unsigned(F, R, t, folder_path, size) ==
    IF Writable(F, folder_path)
    THEN [R EXCEPT ![folder_path] = Json(RecordData(t, size, NoSignature))]
    ELSE R

\* The records after write_cached_folder_size(folder_path, size); a failed
\* open() is caught and leaves the records as they were.
write_cached_folder_size(F, R, t, folder_path, size) ==
    IF Writable(F, folder_path)
    THEN [R EXCEPT ![folder_path] =
              Json(RecordData(t, size, calculate_folder_signature(F, folder_path)))]
    ELSE R

----------------------------------------------------------------------------
(* Folder size calculator *)

\* The directories os.walk(folder_path) yields, top-down, when every
\* subdirectory with a valid record is removed from dirs as it is met.
RECURSIVE WalkOrder(_, _, _, _)
WalkOrder(F, R, t, root) ==
    IF ~Exists(F, root) \/ Denied(F, root) THEN <<>>
    ELSE LET subs == SubdirSeq(F, root)
             down == [i \in 1..Len(subs) |->
                        IF read_cached_folder_size(F, R, t, subs[i]) = None
                        THEN WalkOrder(F, R, t, subs[i])
                        ELSE <<>>]
         IN <<root>> \o Concat(down)

\* os.path.getsize over the files of one directory; a file whose stat fails
\* is skipped.  The directory's own .mosFolderSize is one of its files.
FilesBytes(F, R, d) ==
    SumSeq([i \in 1..Len(F[d].files) |->
               IF F[d].files[i].ok THEN F[d].files[i].size ELSE 0])
    + FileLen(R[d])

\* Recorded sizes of the subdirectories of d that are answered from a record.
CachedSubdirBytes(F, R, t, d) ==
    LET subs == SubdirSeq(F, d)
    IN SumSeq([i \in 1..Len(subs) |->
                  LET c == read_cached_folder_size(F, R, t, subs[i])
                  IN IF c.k = "val" THEN c.v ELSE 0])

\* One iteration of the os.walk loop raises when a subdirectory's record
\* cannot be looked up.
VisitRaises(F, R, t, d) ==
    \E i \in 1..Len(SubdirSeq(F, d)) :
        read_cached_folder_size(F, R, t, SubdirSeq(F, d)[i]) = Raise

\* budget: the number of os.walk iterations that complete before the
\* 300-second ceiling breaks the loop.
WalkSum(F, R, t, visited) ==
    IF \E i \in 1..Len(visited) : VisitRaises(F, R, t, visited[i])
    THEN Raise
    ELSE Val(SumSeq([i \in 1..Len(visited) |->
                       FilesBytes(F, R, visited[i])
                       + CachedSubdirBytes(F, R, t, visited[i])]))

WalkTotal(F, R, t, folder_path, budget) ==
    WalkSum(F, R, t, Take(WalkOrder(F, R, t, folder_path), budget))

\* The os.walk loop is cut short after its first iteration, or not at all.
Budgets(F) == {1, Cardinality(DOMAIN F)}

Result(ret, R, walked) == [ret |-> ret, recs |-> R, walked |-> walked]

\* Variant that writes the record whatever the total is (C23).
AfterWalk_WriteAlways(F, R, t, folder_path, total_size) ==
    IF total_size = Raise THEN Result(Val(0), R, TRUE)
    ELSE Result(total_size,
                write_cached_folder_size(F, R, t, folder_path, total_size.v),
                TRUE)

\* lines 322-329: what is returned and written once the walk is over.
AfterWalk(F, R, t, folder_path, total_size) ==
    IF total_size = Raise THEN Result(Val(0), R, TRUE)         \* except Exception
    ELSE IF total_size.v > 0
         THEN Result(total_size,
                     write_cached_folder_size(F, R, t, folder_path, total_size.v),
                     TRUE)
         ELSE Result(total_size, R, TRUE)

\* lines 294-320: the answer from the record, or the walk.
AfterLookup(F, R, t, folder_path, budget, cached_size) ==
    IF cached_size = Raise THEN Result(Raise, R, FALSE)
    ELSE IF cached_size # None THEN Result(cached_size, R, FALSE)
    ELSE AfterWalk(F, R, t, folder_path, WalkTotal(F, R, t, folder_path, budget))

\* Variant that never consults the record of folder_path (C4).
calculate_folder_size_with_cache_NoLookup(F, R, t, folder_path, budget) ==
    IF Denied(F, folder_path) THEN Result(Raise, R, FALSE)
    ELSE AfterWalk(F, R, t, folder_path, WalkTotal(F, R, t, folder_path, budget))

\* ret: the value returned (or the exception that escapes), recs: the record
\* files afterwards, walked: whether os.walk was run.
calculate_folder_size_with_cache(F, R, t, folder_path, budget) ==
    AfterLookup(F, R, t, folder_path, budget,
                read_cached_folder_size(F, R, t, folder_path))

----------------------------------------------------------------------------
(* Sizes of sibling directories: du and the per-directory fallback *)

Pair(path, size) == [path |-> path, size |-> size]

RECURSIVE SumOver(_, _)
SumOver(S, f) ==
    IF S = {} THEN 0
    ELSE LET x == CHOOSE y \in S : TRUE IN f[x] + SumOver(S \ {x}, f)

\* What `du -s --block-size=1 path` prints: every file below path, the record
\* files included.
DuSize(F, R, path) ==
    LET under == {d \in DOMAIN F : Exists(F, d) /\ IsUnder(path, d)}
    IN SumOver(under,
               [d \in under |->
                   SumSeq([i \in 1..Len(F[d].files) |-> F[d].files[i].size])
                   + FileLen(R[d])])

\* du exits with status 1 when it cannot read a directory, which check=True
\* turns into an exception; duok = FALSE stands for the 30-minute timeout.
DuFails(F, dirs_list, duok) ==
    \/ ~duok
    \/ \E i \in 1..Len(dirs_list), d \in DOMAIN F :
          Denied(F, d) /\ IsUnder(dirs_list[i], d)

fast_get_dir_sizes(F, R, dirs_list, duok) ==
    IF dirs_list = <<>> THEN <<>>
    ELSE IF DuFails(F, dirs_list, duok) THEN <<>>
    ELSE [i \in 1..Len(dirs_list) |-> Pair(dirs_list[i], DuSize(F, R, dirs_list[i]))]

\* sizes.sort(key=lambda x: x[1], reverse=True): a stable sort, so entries of
\* equal size stay in their order.
RECURSIVE InsertDesc(_, _)
InsertDesc(sorted, x) ==
    IF sorted = <<>> THEN <<x>>
    ELSE IF Head(sorted).size >= x.size
         THEN <<Head(sorted)>> \o InsertDesc(Tail(sorted), x)
         ELSE <<x>> \o sorted

RECURSIVE SortDescFrom(_, _, _)
SortDescFrom(sizes, i, acc) ==
    IF i > Len(sizes) THEN acc
    ELSE SortDescFrom(sizes, i + 1, InsertDesc(acc, sizes[i]))

SortDesc(sizes) == SortDescFrom(sizes, 1, <<>>)

\* Variant without the cut to top_n (C7).
TopOf_NoCut(sizes, top_n) == SortDesc(sizes)

\* sort(reverse=True) followed by [:top_n]
TopOf(sizes, top_n) == Take(SortDesc(sizes), top_n)

Got(ret, R) == [ret |-> ret, recs |-> R]

\* The loop of get_top_subdirs over subdirs[i..]; an exception that escapes
\* calculate_folder_size_with_cache ends it.
RECURSIVE SizeEach(_, _, _, _, _, _, _)
RECURSIVE SizeNext(_, _, _, _, _, _, _)
SizeNext(F, t, subdirs, i, sizes, budget, c) ==
    IF c.ret = Raise THEN Got(Raise, c.recs)
    ELSE SizeEach(F, c.recs, t, subdirs, i + 1,
                  Append(sizes, Pair(subdirs[i], c.ret.v)), budget)

SizeEach(F, R, t, subdirs, i, sizes, budget) ==
    IF i > Len(subdirs) THEN Got(Val(sizes), R)
    ELSE SizeNext(F, t, subdirs, i, sizes, budget,
                  calculate_folder_size_with_cache(F, R, t, subdirs[i], budget))

\* lines 343-348 on the sizes sz the loop produced
TopFrom(sz, top_n) ==
    IF sz.ret = Raise THEN Got(<<>>, sz.recs)      \* except Exception: return []
    ELSE Got(TopOf(sz.ret.v, top_n), sz.recs)

get_top_subdirs(F, R, t, directory, top_n, budget) ==
    IF Scandir(F, directory) = Raise THEN Got(<<>>, R)   \* except Exception: return []
    ELSE IF Scandir(F, directory).v = <<>> THEN Got(<<>>, R)
    ELSE TopFrom(SizeEach(F, R, t, Scandir(F, directory).v, 1, <<>>, budget), top_n)

Level3Items(top_level_3) ==
    [k \in 1..Len(top_level_3) |-> Pair(top_level_3[k].path, top_level_3[k].size)]

Level2Item(path2, size2, level_3) ==
    [path |-> path2, size |-> size2, level_3 |-> level_3]

Level1Item(path1, size1, level_2) ==
    [path |-> path1, size |-> size1, level_2 |-> level_2]

\* The level-2 loop of get_hierarchical_sizes over top_level_2[j..].
RECURSIVE HierLevel2(_, _, _, _, _, _, _, _)
RECURSIVE HierLevel2Next(_, _, _, _, _, _, _, _)
HierLevel2Next(F, t, top_level_2, j, items, top_n, budget, g) ==
    HierLevel2(F, g.recs, t, top_level_2, j + 1,
               Append(items, Level2Item(top_level_2[j].path, top_level_2[j].size,
                                        Level3Items(g.ret))),
               top_n, budget)

HierLevel2(F, R, t, top_level_2, j, items, top_n, budget) ==
    IF j > Len(top_level_2) THEN Got(items, R)
    ELSE HierLevel2Next(F, t, top_level_2, j, items, top_n, budget,
                        get_top_subdirs(F, R, t, top_level_2[j].path, top_n, budget))

\* The level-1 loop of get_hierarchical_sizes over top_level_1[i..].
RECURSIVE HierLevel1(_, _, _, _, _, _, _, _)
RECURSIVE HierLevel1Next(_, _, _, _, _, _, _, _)
HierLevel1Next(F, t, top_level_1, i, items, top_n, budget, h) ==
    HierLevel1(F, h.recs, t, top_level_1, i + 1,
               Append(items, Level1Item(top_level_1[i].path, top_level_1[i].size, h.ret)),
               top_n, budget)

HierLevel1Sub(F, t, top_level_1, i, items, top_n, budget, g) ==
    HierLevel1Next(F, t, top_level_1, i, items, top_n, budget,
                   HierLevel2(F, g.recs, t, g.ret, 1, <<>>, top_n, budget))

HierLevel1(F, R, t, top_level_1, i, items, top_n, budget) ==
    IF i > Len(top_level_1) THEN Got(items, R)
    ELSE HierLevel1Sub(F, t, top_level_1, i, items, top_n, budget,
                       get_top_subdirs(F, R, t, top_level_1[i].path, top_n, budget))

\* get_hierarchical_sizes(directory, levels=3, top_n); ret is None when the
\* size of the directory itself cannot be computed, as
\* slow_get_hierarchical_sizes returns then.
SlowResult(disk_mount, c, h) ==
    Got(Val([path |-> disk_mount, size |-> c.ret.v, level_1 |-> h.ret]), h.recs)

SlowLevel1(F, t, disk_mount, top_n, budget, c, g) ==
    SlowResult(disk_mount, c, HierLevel1(F, g.recs, t, g.ret, 1, <<>>, top_n, budget))

SlowFrom(F, t, disk_mount, top_n, budget, c) ==
    IF c.ret = Raise THEN Got(None, c.recs)
    ELSE SlowLevel1(F, t, disk_mount, top_n, budget, c,
                    get_top_subdirs(F, c.recs, t, disk_mount, top_n, budget))

slow_get_hierarchical_sizes(F, R, t, disk_mount, top_n, budget) ==
    SlowFrom(F, t, disk_mount, top_n, budget,
             calculate_folder_size_with_cache(F, R, t, disk_mount, budget))

----------------------------------------------------------------------------
(* Observations: the last call made and what it returned *)

\* prev: the call before it, when that one was a calculation or a re-creation
\* of the same path.
Call(op, path, ret, walked) == [op |-> op, path |-> path, ret |-> ret, walked |-> walked]

Observe(o, c) ==
    [op |-> c.op, path |-> c.path, ret |-> c.ret, walked |-> c.walked,
     prev |-> IF o.path = c.path /\ o.op \in {"calc", "recreate"}
              THEN [op |-> o.op, ret |-> o.ret, walked |-> o.walked]
              ELSE [op |-> "none", ret |-> None, walked |-> FALSE]]

NoCall == Observe(Call("none", <<>>, None, FALSE), Call("none", <<>>, None, FALSE))

----------------------------------------------------------------------------
(* Idle values of the loops *)

IdleMain == [pc |-> "off"]
IdleFixer == [pc |-> "off"]

----------------------------------------------------------------------------
(* Snapshot files (cache_<safe_name>.json) *)

\* disk_mount.replace('/', '_').replace(':', '_').replace('\\', '_')
SafeName(disk_mount) ==
    [i \in 1..Len(disk_mount) |->
        IF disk_mount[i] \in {"/", ":", "\\"} THEN "_" ELSE disk_mount[i]]

NoCache == [data |-> None, ts |-> None]

\* Variant that takes whatever the file holds, an emptied file too (C2).
load_cache_AnyContent(C, disk_mount) ==
    LET content == C[SafeName(disk_mount)] IN
    IF content.kind = "none" THEN NoCache
    ELSE IF content.kind = "torn" THEN [data |-> Val(<<>>), ts |-> Val(0)]
    ELSE [data |-> Val(content.data.level_1), ts |-> Val(content.data.timestamp)]

\* The pair (hierarchical_data, timestamp) load_cache returns.
load_cache(C, disk_mount) ==
    LET content == C[SafeName(disk_mount)] IN
    IF content.kind = "none" THEN NoCache
    ELSE IF content.kind = "torn" THEN NoCache             \* json.load raises
    ELSE IF content.data.timestamp = 0 \/ content.data.level_1 = <<>> THEN NoCache
    ELSE [data |-> Val(content.data.level_1), ts |-> Val(content.data.timestamp)]

\* Variant that takes a snapshot of exactly the validity age for outdated (C11).
is_cache_outdated_AtLimit(t, timestamp) ==
    timestamp = None \/ (t - timestamp.v) >= DISK_CACHE_VALIDITY_HOURS

is_cache_outdated(t, timestamp) ==
    timestamp = None \/ (t - timestamp.v) > DISK_CACHE_VALIDITY_HOURS

\* psutil.disk_usage(disk_mount).percent, for a volume of 100 units
DiskPercent(F, R, disk_mount) == DuSize(F, R, disk_mount)

----------------------------------------------------------------------------
(* update_cache_thread: one run, step by step *)

\* out: "run" while the thread is alive, then "saved", "failed" (exception or
\* nothing to save) or "nodirs" (the early return).
\* budget: how far the walks of this run get before the 300-second ceiling.
\* pre: what load_cache returned for the volume when the thread was started.
TaskAt(pc, out, budget, pre, hier, top1, item, top2) ==
    [pc |-> pc, out |-> out, budget |-> budget, pre |-> pre, hier |-> hier,
     top1 |-> top1, item |-> item, top2 |-> top2]

NoTask == TaskAt("none", "none", 0, NoCache, None, <<>>, None, <<>>)
NewTask(budget, pre) == TaskAt("scan", "run", budget, pre, None, <<>>, None, <<>>)
DoneTask(tk, out) == TaskAt("done", out, tk.budget, tk.pre, None, <<>>, None, <<>>)

Alive(tk) == tk.pc \notin {"none", "done"}

\* The run ends: a thread object nothing refers to any more is dropped.
Finish(m, s, out) ==
    task' = [task EXCEPT ![m][s] =
                IF active_threads[m] = s THEN DoneTask(task[m][s], out) ELSE NoTask]

\* lines 408-417 and 466-471: list the mount, size its directories with du,
\* or fall back to the full per-directory computation.
ScanFast(m, s, top_level_1) ==
    /\ task' = [task EXCEPT ![m][s] =
                   TaskAt("level2", "run", @.budget, @.pre,
                          Val([disk_mount |-> m, timestamp |-> now, level_1 |-> <<>>]),
                          TopOf(top_level_1, TOP_N), None, <<>>)]
    /\ UNCHANGED recs

ScanSlow(m, s, h) ==
    /\ task' = [task EXCEPT ![m][s] =
                   TaskAt("persist", "run", @.budget, @.pre,
                          IF h.ret = None THEN None
                          ELSE Val([path |-> h.ret.v.path,
                                    size |-> h.ret.v.size,
                                    level_1 |-> h.ret.v.level_1,
                                    timestamp |-> now,
                                    disk_mount |-> m]),
                          <<>>, None, <<>>)]
    /\ recs' = h.recs

ScanWith(m, s, top_level_1) ==
    IF top_level_1 # <<>> THEN ScanFast(m, s, top_level_1)
    ELSE ScanSlow(m, s, slow_get_hierarchical_sizes(fs, recs, now, m, TOP_N,
                                                    task[m][s].budget))

TaskScan(m, s) ==
    /\ task[m][s].pc = "scan"
    /\ IF Scandir(fs, m) = Raise THEN Finish(m, s, "failed") /\ UNCHANGED recs
       ELSE IF Scandir(fs, m).v = <<>> THEN Finish(m, s, "nodirs") /\ UNCHANGED recs
       ELSE \E duok \in BOOLEAN :
              ScanWith(m, s, fast_get_dir_sizes(fs, recs, Scandir(fs, m).v, duok))
    /\ obs' = NoCall
    /\ UNCHANGED <<now, fs, cachefiles, active_threads, mainloop, fixer>>

\* After a level-1 item is complete: the next one, or the end of the loop.
AfterItem(tk, item) ==
    LET hier == Val([tk.hier.v EXCEPT !.level_1 = Append(@, item)]) IN
    IF Len(tk.top1) > 1
    THEN TaskAt("level2", "run", tk.budget, tk.pre, hier, Tail(tk.top1), None, <<>>)
    ELSE TaskAt("persist", "run", tk.budget, tk.pre, hier, <<>>, None, <<>>)

\* lines 425-439: the next level-1 directory, its subdirectories sized by du
\* or by get_top_subdirs, sorted and cut to top_n.
\* lines 434-436: the sizes du gave, or those of get_top_subdirs
OrFallback(du, path, budget) ==
    IF du # <<>> THEN Got(du, recs)
    ELSE get_top_subdirs(fs, recs, now, path, TOP_N, budget)

Level2With(m, s, tk, path1, size1, g) ==
    /\ task' = [task EXCEPT ![m][s] =
                   IF TopOf(g.ret, TOP_N) = <<>>
                   THEN AfterItem(tk, Level1Item(path1, size1, <<>>))
                   ELSE TaskAt("level3", "run", tk.budget, tk.pre, tk.hier, tk.top1,
                               Val(Level1Item(path1, size1, <<>>)),
                               TopOf(g.ret, TOP_N))]
    /\ recs' = g.recs

Level2Of(m, s, tk, path1, size1) ==
    IF Scandir(fs, path1) = Raise THEN Finish(m, s, "failed") /\ UNCHANGED recs
    ELSE IF Scandir(fs, path1).v = <<>>
         THEN /\ task' = [task EXCEPT ![m][s] =
                            AfterItem(tk, Level1Item(path1, size1, <<>>))]
              /\ UNCHANGED recs
    ELSE \E duok \in BOOLEAN :
            Level2With(m, s, tk, path1, size1,
                       OrFallback(fast_get_dir_sizes(fs, recs, Scandir(fs, path1).v, duok),
                                  path1, tk.budget))

TaskLevel2(m, s) ==
    /\ task[m][s].pc = "level2"
    /\ Level2Of(m, s, task[m][s], Head(task[m][s].top1).path, Head(task[m][s].top1).size)
    /\ obs' = NoCall
    /\ UNCHANGED <<now, fs, cachefiles, active_threads, mainloop, fixer>>

\* lines 441-464: the next level-2 directory and its level-3 list.
Level3Item(tk, level_2_item) ==
    [tk.item.v EXCEPT !.level_2 = Append(@, level_2_item)]

Level3With(m, s, tk, path2, size2, g) ==
    /\ task' = [task EXCEPT ![m][s] =
                   IF Len(tk.top2) > 1
                   THEN TaskAt("level3", "run", tk.budget, tk.pre, tk.hier, tk.top1,
                               Val(Level3Item(tk, Level2Item(path2, size2,
                                       Level3Items(TopOf(g.ret, TOP_N))))),
                               Tail(tk.top2))
                   ELSE AfterItem(tk, Level3Item(tk, Level2Item(path2, size2,
                                          Level3Items(TopOf(g.ret, TOP_N)))))]
    /\ recs' = g.recs

Level3Of(m, s, tk, path2, size2) ==
    IF Scandir(fs, path2) = Raise THEN Finish(m, s, "failed") /\ UNCHANGED recs
    ELSE IF Scandir(fs, path2).v = <<>>
         THEN Level3With(m, s, tk, path2, size2, Got(<<>>, recs))
    ELSE \E duok \in BOOLEAN :
            Level3With(m, s, tk, path2, size2,
                       OrFallback(fast_get_dir_sizes(fs, recs, Scandir(fs, path2).v, duok),
                                  path2, tk.budget))

TaskLevel3(m, s) ==
    /\ task[m][s].pc = "level3"
    /\ Level3Of(m, s, task[m][s], Head(task[m][s].top2).path, Head(task[m][s].top2).size)
    /\ obs' = NoCall
    /\ UNCHANGED <<now, fs, cachefiles, active_threads, mainloop, fixer>>

\* Variant that saves an empty level-1 list too (C10).
ShouldSave_Always(hier) == hier # None

\* line 476: hierarchical_data and hierarchical_data.get('level_1')
ShouldSave(hier) == hier # None /\ hier.v.level_1 # <<>>

\* lines 473-477: the usage percentage is added and, when there is something
\* to save, open(cache_file, 'w') empties the snapshot file.
TaskPersist(m, s) ==
    /\ task[m][s].pc = "persist"
    /\ LET tk == task[m][s] IN
       IF ShouldSave(tk.hier)
       THEN /\ task' = [task EXCEPT ![m][s] =
                  TaskAt("dump", "run", tk.budget, tk.pre,
                         Val(tk.hier.v @@ [percent |-> DiskPercent(fs, recs, m)]),
                         <<>>, None, <<>>)]
            /\ cachefiles' = [cachefiles EXCEPT ![SafeName(m)] = Torn]
       ELSE /\ Finish(m, s, "failed")
            /\ UNCHANGED cachefiles
    /\ obs' = NoCall
    /\ UNCHANGED <<now, fs, recs, active_threads, mainloop, fixer>>

\* line 478: json.dump writes the snapshot and the file is closed.  At
\* position "orphan" the file was unlinked after the thread had opened it: the
\* snapshot goes to a file that has no name any more.
TaskDump(m, s) ==
    /\ task[m][s].pc \in {"dump", "orphan"}
    /\ cachefiles' = IF task[m][s].pc = "dump"
                     THEN [cachefiles EXCEPT ![SafeName(m)] = Json(task[m][s].hier.v)]
                     ELSE cachefiles
    /\ Finish(m, s, "saved")
    /\ obs' = NoCall
    /\ UNCHANGED <<now, fs, recs, active_threads, mainloop, fixer>>

TaskStep(m, s) ==
    \/ TaskScan(m, s)
    \/ TaskLevel2(m, s)
    \/ TaskLevel3(m, s)
    \/ TaskPersist(m, s)
    \/ TaskDump(m, s)

----------------------------------------------------------------------------
(* The calculator on one directory tree *)

Vol == <<"/", "a">>

CalcDirs == {Vol, Join(Vol, "p"), Join(Vol, "q"), Join(Join(Vol, "p"), "r")}

\* Records a directory may carry before the program looks at it: none, an
\* unreadable one, one without signature, and complete ones of several ages
\* and signatures.
SomeRecords(F, d, t) ==
    { NoFile, Torn,
      Json([timestamp |-> t, size |-> 7]),
      Json(RecordData(t, 7, calculate_folder_signature(F, d))),
      Json(RecordData(t - FOLDER_CACHE_VALIDITY_HOURS, 7,
                      calculate_folder_signature(F, d))),
      Json(RecordData(t - FOLDER_CACHE_VALIDITY_HOURS - 1, 7,
                      calculate_folder_signature(F, d))),
      Json(RecordData(t, 7, Md5Hex8(d, 1, 0))) }

InitCalc ==
    /\ now = MaxNow - 1
    /\ \E pv \in {"rwx", "r-x", "---"}, pp \in {"rwx", "---"} :
          fs = [d \in CalcDirs |->
                  IF d = Vol THEN Dir(1, 1, pv, <<File(2, TRUE)>>)
                  ELSE IF d = Join(Vol, "p")
                       THEN Dir(1, 2, pp, <<File(1, FALSE), File(3, TRUE)>>)
                  ELSE IF d = Join(Vol, "q") THEN Dir(1, 3, "rwx", <<File(1, TRUE)>>)
                  ELSE Dir(1, 4, "rwx", <<>>)]
    /\ \E rv \in SomeRecords(fs, Vol, now),
          rp \in {NoFile,
                  Json(RecordData(now - FOLDER_CACHE_VALIDITY_HOURS, 9,
                                  calculate_folder_signature(fs, Join(Vol, "p"))))} :
          recs = [d \in CalcDirs |->
                    IF d = Vol THEN rv
                    ELSE IF d = Join(Vol, "p") THEN rp
                    ELSE NoFile]
    /\ cachefiles = <<>>
    /\ active_threads = <<>>
    /\ task = <<>>
    /\ mainloop = IdleMain
    /\ fixer = IdleFixer
    /\ obs = NoCall

\* A call of read_cached_folder_size(path).
CallRead(path) ==
    /\ obs' = Observe(obs, Call("read", path,
                                read_cached_folder_size(fs, recs, now, path), FALSE))
    /\ UNCHANGED <<now, fs, recs, cachefiles, active_threads, task, mainloop, fixer>>

\* A call of calculate_folder_size_with_cache(path).
CallCalc(path, budget) ==
    LET r == calculate_folder_size_with_cache(fs, recs, now, path, budget) IN
    /\ recs' = r.recs
    /\ obs' = Observe(obs, Call("calc", path, r.ret, r.walked))
    /\ UNCHANGED <<now, fs, cachefiles, active_threads, task, mainloop, fixer>>

\* An hour passes.
Tick ==
    /\ now < MaxNow
    /\ now' = now + 1
    /\ obs' = NoCall
    /\ UNCHANGED <<fs, recs, cachefiles, active_threads, task, mainloop, fixer>>

\* Directory d is deleted and created again under the same name with the same
\* content, its record file copied back.  The file system gives the new
\* directory any inode number that is not in use, the one just freed included.
Recreate(d) ==
    /\ Exists(fs, d)
    /\ SubdirSeq(fs, d) = <<>>
    /\ recs[d].kind # "none"
    /\ \E i \in 1..MaxInode :
          /\ \A e \in DOMAIN fs \ {d} : Exists(fs, e) => fs[e].ino # i
          /\ fs' = [fs EXCEPT ![d].ino = i]
    /\ obs' = Observe(obs, Call("recreate", d, None, FALSE))
    /\ UNCHANGED <<now, recs, cachefiles, active_threads, task, mainloop, fixer>>

NextCalc ==
    \/ \E d \in DOMAIN fs : CallRead(d)
    \/ \E d \in DOMAIN fs, b \in Budgets(fs) : CallCalc(d, b)
    \/ \E d \in DOMAIN fs : Recreate(d)
    \/ Tick

SpecCalc == InitCalc /\ [][NextCalc]_vars

----------------------------------------------------------------------------
(* One rebuild of a volume with wide directories *)

Six == <<"p", "q", "r", "s", "t", "u">>

\* Vol, n1 subdirectories of it, six of Vol/p and six of Vol/p/p.
WideDirs(n1) ==
    {Vol}
    \cup {Join(Vol, Six[i]) : i \in 1..n1}
    \cup (IF n1 = 0 THEN {}
          ELSE {Join(Join(Vol, "p"), Six[i]) : i \in 1..6}
               \cup {Join(Join(Join(Vol, "p"), "p"), Six[i]) : i \in 1..6})

\* File sizes given to six sibling directories, in listing order.
Patterns == {<<1, 2, 3, 4, 5, 6>>, <<6, 5, 4, 3, 2, 1>>, <<3, 1, 6, 2, 5, 4>>}

LastName(d) == d[Len(d)]

\* A snapshot left by an earlier run.
OldSnapshot(m, t) ==
    Json([disk_mount |-> m, timestamp |-> t, percent |-> 1,
          level_1 |-> <<Level1Item(Join(m, "p"), 1, <<>>)>>])

InitBuild ==
    /\ now = StartNow
    /\ \E n1 \in {0, 2, 6}, pat \in Patterns,
          deny \in {<<>>, Vol, Join(Vol, "q"), Join(Join(Vol, "p"), "u"),
                    Join(Join(Join(Vol, "p"), "p"), "u")} :
          fs = [d \in WideDirs(n1) |->
                  IF d = Vol THEN Dir(1, 1, IF d = deny THEN "---" ELSE "rwx", <<>>)
                  ELSE Dir(1, 1 + Len(d) * 10 + NameIdx(LastName(d)),
                           IF d = deny THEN "---" ELSE "rwx",
                           <<File(pat[NameIdx(LastName(d))], TRUE)>>)]
    /\ recs = [d \in DOMAIN fs |-> NoFile]
    /\ \E old \in {NoFile, OldSnapshot(Vol, StartNow - DISK_CACHE_VALIDITY_HOURS - 1)} :
          cachefiles = [f \in {SafeName(Vol)} |-> old]
    /\ active_threads = [m \in {Vol} |-> 1]
    /\ \E b \in Budgets(fs) :
          task = [m \in {Vol} |-> [s \in 1..MaxTasks |->
                                      IF s = 1 THEN NewTask(b, load_cache(cachefiles, m))
                                      ELSE NoTask]]
    /\ mainloop = IdleMain
    /\ fixer = IdleFixer
    /\ obs = NoCall

NextBuild == \E m \in DOMAIN task, s \in 1..MaxTasks : TaskStep(m, s)

SpecBuild == InitBuild /\ [][NextBuild]_vars

----------------------------------------------------------------------------
(* background_cache_fix: the reconciler *)

Sizes(items) == [k \in 1..Len(items) |-> items[k].size]

\* Variant that leaves the level-2 sizes as they are (C24).
FixLevel2_Untouched(level2) == level2

\* lines 516-525 for one level-2 item
FixLevel2(level2) ==
    LET sum_level3 == SumSeq(Sizes(level2.level_3)) IN
    IF sum_level3 > level2.size THEN [level2 EXCEPT !.size = sum_level3] ELSE level2

\* Variant that leaves the level-1 size as it is (C31).
FixLevel1_Level2Only(level1) ==
    [level1 EXCEPT !.level_2 = [j \in 1..Len(@) |-> FixLevel2(@[j])]]

\* lines 504-525 for one level-1 item: its own size is compared with the sizes
\* its level-2 items have at that moment, before they are corrected in turn.
FixLevel1(level1) ==
    LET sum_level2 == SumSeq(Sizes(level1.level_2)) IN
    [level1 EXCEPT !.size = IF sum_level2 > @ THEN sum_level2 ELSE @,
                   !.level_2 = [j \in 1..Len(@) |-> FixLevel2(@[j])]]

FixData(data) ==
    [data EXCEPT !.level_1 = [i \in 1..Len(@) |-> FixLevel1(@[i])]]

\* The calls of write_cached_folder_size the pass makes, in order.
RECURSIVE FixWrites2(_, _, _)
FixWrites2(level_2, fixed, j) ==
    IF j > Len(level_2) THEN <<>>
    ELSE (IF fixed[j].size # level_2[j].size
          THEN <<Pair(level_2[j].path, fixed[j].size)>> ELSE <<>>)
         \o FixWrites2(level_2, fixed, j + 1)

RECURSIVE FixWrites1(_, _, _)
FixWrites1(level_1, fixed, i) ==
    IF i > Len(level_1) THEN <<>>
    ELSE (IF fixed[i].size # level_1[i].size
          THEN <<Pair(level_1[i].path, fixed[i].size)>> ELSE <<>>)
         \o FixWrites2(level_1[i].level_2, fixed[i].level_2, 1)
         \o FixWrites1(level_1, fixed, i + 1)

RECURSIVE WriteAll(_, _, _, _, _)
WriteAll(F, R, t, writes, k) ==
    IF k > Len(writes) THEN R
    ELSE WriteAll(F, IF writes[k].path \in DOMAIN F
                     THEN write_cached_folder_size(F, R, t, writes[k].path, writes[k].size)
                     ELSE R,
                  t, writes, k + 1)

\* pc: "sleep", "scan" (inside the loop over the snapshot files), "write"
\* (about to open the file for writing) or "dump" (file opened and emptied).
\* file, before, data: the file being processed, its content as read and as
\* corrected; they stay until the next file is read.
FixerAt(pc, todo, file, before, data) ==
    [pc |-> pc, todo |-> todo, file |-> file, before |-> before, data |-> data]

SleepingFixer == FixerAt("sleep", {}, <<>>, None, None)

\* line 492 is over and line 496 lists the snapshot files.
FixWake ==
    /\ fixer.pc = "sleep"
    /\ fixer' = FixerAt("scan", {f \in DOMAIN cachefiles : cachefiles[f].kind # "none"},
                        <<>>, None, None)
    /\ obs' = NoCall
    /\ UNCHANGED <<now, fs, recs, cachefiles, active_threads, task, mainloop>>

\* Variant that writes every snapshot back, corrected or not (C14).
FixFound_AlwaysWrite(f, data, fixed) ==
    /\ fixer' = FixerAt("write", fixer.todo \ {f}, f, Val(data), Val(fixed))
    /\ recs' = WriteAll(fs, recs, now, FixWrites1(data.level_1, fixed.level_1, 1), 1)

\* lines 497-526 for one file: read it, correct the sizes in memory and write
\* the record files of the corrected directories.
FixFound(f, data, fixed) ==
    /\ fixer' = FixerAt(IF fixed # data THEN "write" ELSE "scan",
                        fixer.todo \ {f}, f, Val(data), Val(fixed))
    /\ recs' = WriteAll(fs, recs, now, FixWrites1(data.level_1, fixed.level_1, 1), 1)

\* Variant in which a file that cannot be read ends the loop over the files
\* (C17).
FixRead_StopAtError(f) ==
    /\ fixer.pc = "scan"
    /\ f \in fixer.todo
    /\ IF cachefiles[f].kind # "json"
       THEN /\ fixer' = FixerAt("scan", {}, f, None, None)
            /\ UNCHANGED recs
       ELSE FixFound(f, cachefiles[f].data, FixData(cachefiles[f].data))
    /\ obs' = NoCall
    /\ UNCHANGED <<now, fs, cachefiles, active_threads, task, mainloop>>

FixRead(f) ==
    /\ fixer.pc = "scan"
    /\ f \in fixer.todo
    /\ IF cachefiles[f].kind # "json"
       THEN /\ fixer' = FixerAt("scan", fixer.todo \ {f}, f, None, None)
            /\ UNCHANGED recs
       ELSE FixFound(f, cachefiles[f].data, FixData(cachefiles[f].data))
    /\ obs' = NoCall
    /\ UNCHANGED <<now, fs, cachefiles, active_threads, task, mainloop>>

\* line 528: open(cache_path, 'w') empties the file.
FixTrunc ==
    /\ fixer.pc = "write"
    /\ cachefiles' = [cachefiles EXCEPT ![fixer.file] = Torn]
    /\ fixer' = [fixer EXCEPT !.pc = "dump"]
    /\ obs' = NoCall
    /\ UNCHANGED <<now, fs, recs, active_threads, task, mainloop>>

\* line 529: json.dump writes the corrected snapshot, into a file without a
\* name when the file was unlinked after line 528 had opened it ("orphan").
FixDump ==
    /\ fixer.pc \in {"dump", "orphan"}
    /\ cachefiles' = IF fixer.pc = "dump"
                     THEN [cachefiles EXCEPT ![fixer.file] = Json(fixer.data.v)]
                     ELSE cachefiles
    /\ fixer' = [fixer EXCEPT !.pc = "scan"]
    /\ obs' = NoCall
    /\ UNCHANGED <<now, fs, recs, active_threads, task, mainloop>>

\* The loop over the files is over: back to time.sleep(300).
FixSleep ==
    /\ fixer.pc = "scan"
    /\ fixer.todo = {}
    /\ fixer' = SleepingFixer
    /\ obs' = NoCall
    /\ UNCHANGED <<now, fs, recs, cachefiles, active_threads, task, mainloop>>

FixStep ==
    \/ FixWake
    \/ \E f \in DOMAIN cachefiles : FixRead(f)
    \/ FixTrunc
    \/ FixDump
    \/ FixSleep

----------------------------------------------------------------------------
(* The reconciler on snapshots of every shape *)

PathA == Join(Vol, "p")
PathB == Join(PathA, "q")
PathB2 == Join(PathA, "r")
PathC == Join(PathB, "r")
PathC2 == Join(PathB2, "q")
FixDirs == {Vol, PathA, PathB, PathB2, PathC, PathC2}

SnapshotSizes == {1, 2, 5}

\* Every directory can be written to, or PathA or PathB is one the process
\* can read but not write to, or PathB has been deleted since the snapshot
\* was taken.  The snapshot was written just now or DISK_CACHE_VALIDITY_HOURS
\* ago.
InitFix ==
    /\ now = StartNow
    /\ \E ro \in {<<>>, PathA, PathB}, gone \in {<<>>, PathB} :
          /\ ro = <<>> \/ gone = <<>>
          /\ fs = [d \in FixDirs |->
                   IF d = gone \/ (gone # <<>> /\ d = PathC) THEN [exists |-> FALSE]
                   ELSE Dir(1, IF d = Vol THEN 1 ELSE 1 + Len(d) + NameIdx(LastName(d)),
                            IF d = ro THEN "r-x" ELSE "rwx",
                            <<File(1, TRUE)>>)]
    /\ recs = [d \in FixDirs |-> NoFile]
    /\ \E a \in SnapshotSizes, b \in SnapshotSizes, c \in SnapshotSizes, b2 \in {0, 1},
          c2 \in {0} \cup SnapshotSizes, ts \in {now, now - DISK_CACHE_VALIDITY_HOURS} :
          /\ b2 = 0 => c2 = 0
          /\ cachefiles = [f \in {SafeName(Vol)} |->
              Json([disk_mount |-> Vol, timestamp |-> ts, percent |-> 1,
                    level_1 |-> <<Level1Item(PathA, a,
                        <<Level2Item(PathB, b, <<Pair(PathC, c)>>)>>
                        \o (IF b2 = 0 THEN <<>>
                            ELSE <<Level2Item(PathB2, b2,
                                      IF c2 = 0 THEN <<>>
                                      ELSE <<Pair(PathC2, c2)>>)>>))>>])]
    /\ active_threads = [m \in {Vol} |-> 0]
    /\ task = [m \in {Vol} |-> [s \in 1..MaxTasks |-> NoTask]]
    /\ mainloop = IdleMain
    /\ fixer = SleepingFixer
    /\ obs = NoCall

NextFix == FixStep \/ Tick

SpecFix == InitFix /\ [][NextFix]_vars

----------------------------------------------------------------------------
(* main: the scheduling pass, the paged mode and its keys *)

VolB == <<"/", "b">>

\* get_physical_disks_info(): the volumes of the machine, which are the
\* mounts active_threads is defined on, in the order psutil lists them.
Disks == SelectSeq(<<Vol, VolB>>, LAMBDA m : m \in DOMAIN active_threads)

\* Variant without the test on active_threads (C1).
MayStart_Always(A, m) == TRUE

\* mount not in active_threads
MayStart(A, m) == A[m] = 0

\* Variant that leaves every entry in place (C13).
Cleanup_Nothing(A, T) == [active |-> A, task |-> T]

\* lines 805-812: entries whose thread is no longer alive are deleted.
Cleanup(A, T) ==
    [active |-> [m \in DOMAIN A |->
                    IF A[m] # 0 /\ ~Alive(T[m][A[m]]) THEN 0 ELSE A[m]],
     task |-> [m \in DOMAIN T |-> [s \in 1..MaxTasks |->
                    IF A[m] = s /\ ~Alive(T[m][s]) THEN NoTask ELSE T[m][s]]]]

\* threading.Thread(target=update_cache_thread, ...).start() and the entry in
\* active_threads; a thread object that loses its entry lives on only while
\* it runs.  At most MaxTasks thread objects per volume exist at a time.
StartThread(A, T, m, budget, pre) ==
    LET free == {s \in 1..MaxTasks : T[m][s].pc = "none"} IN
    IF free = {} THEN [active |-> A, task |-> T]
    ELSE LET s == CHOOSE x \in free : \A y \in free : x <= y IN
         [active |-> [A EXCEPT ![m] = s],
          task |-> [T EXCEPT ![m] = [x \in 1..MaxTasks |->
                        IF x = s THEN NewTask(budget, pre)
                        ELSE IF A[m] = x /\ ~Alive(T[m][x]) THEN NoTask
                        ELSE T[m][x]]]]

\* lines 814-831: the loop over disks[i..]
RECURSIVE SchedFrom(_, _, _, _, _)
RECURSIVE SchedNext(_, _, _, _, _)
SchedNext(i, st, caches, budgets, l) ==
    SchedFrom(i + 1, st.active, st.task,
              IF l.ts # None
              THEN Append(caches, [mount |-> Disks[i], data |-> l.data.v, ts |-> l.ts.v])
              ELSE caches,
              budgets)

SchedDisk(i, A, T, caches, budgets, l) ==
    SchedNext(i,
              IF is_cache_outdated(now, l.ts) /\ MayStart(A, Disks[i])
              THEN StartThread(A, T, Disks[i], budgets[Disks[i]], l)
              ELSE [active |-> A, task |-> T],
              caches, budgets, l)

SchedFrom(i, A, T, caches, budgets) ==
    IF i > Len(Disks) THEN [active |-> A, task |-> T, caches |-> caches]
    ELSE SchedDisk(i, A, T, caches, budgets, load_cache(cachefiles, Disks[i]))

\* caches.sort(key=lambda x: x[2], reverse=True)
RECURSIVE InsertByTs(_, _)
InsertByTs(sorted, x) ==
    IF sorted = <<>> THEN <<x>>
    ELSE IF Head(sorted).ts >= x.ts THEN <<Head(sorted)>> \o InsertByTs(Tail(sorted), x)
    ELSE <<x>> \o sorted

RECURSIVE SortByTs(_, _, _)
SortByTs(caches, i, acc) ==
    IF i > Len(caches) THEN acc
    ELSE SortByTs(caches, i + 1, InsertByTs(acc, caches[i]))

\* lines 840-846: the page of the volume named in user_prefs.json, which may
\* name any volume; pages are counted from 1.
StartPages(caches) == 1..Len(caches)

\* pc: "top" (outer loop) or "paged"; caches and page: the snapshots loaded by
\* the last pass and the one on screen.  The number of levels on screen
\* ('+', '-') changes nothing else and is left out.
MainAt(pc, caches, page) == [pc |-> pc, caches |-> caches, page |-> page]

StartMain == MainAt("top", <<>>, 0)

PageMount == mainloop.caches[mainloop.page].mount

\* One iteration of the outer loop up to the paged mode (lines 743-849).
PassShow(caches) ==
    IF caches = <<>>
    THEN mainloop' = MainAt("top", <<>>, 0)
    ELSE \E page \in StartPages(caches) : mainloop' = MainAt("paged", caches, page)

PassEnd(r) ==
    /\ active_threads' = r.active
    /\ task' = r.task
    /\ PassShow(SortByTs(r.caches, 1, <<>>))

PassFrom(c, budgets) == PassEnd(SchedFrom(1, c.active, c.task, <<>>, budgets))

\* Variant in which the pass waits until no thread is running (C19).
M_Pass_Joining ==
    /\ mainloop.pc = "top"
    /\ \A m \in DOMAIN task : \A s \in 1..MaxTasks : ~Alive(task[m][s])
    /\ \E budgets \in [{Disks[i] : i \in 1..Len(Disks)} -> Budgets(fs)] :
          PassFrom(Cleanup(active_threads, task), budgets)
    /\ obs' = NoCall
    /\ UNCHANGED <<now, fs, recs, cachefiles, fixer>>

M_Pass ==
    /\ mainloop.pc = "top"
    /\ \E budgets \in [{Disks[i] : i \in 1..Len(Disks)} -> Budgets(fs)] :
          PassFrom(Cleanup(active_threads, task), budgets)
    /\ obs' = NoCall
    /\ UNCHANGED <<now, fs, recs, cachefiles, fixer>>

\* 'q', ESC or the timeout of select: back to the outer loop.
KeyQuit ==
    /\ mainloop.pc = "paged"
    /\ mainloop' = MainAt("top", <<>>, 0)
    /\ obs' = NoCall
    /\ UNCHANGED <<now, fs, recs, cachefiles, active_threads, task, fixer>>

\* 'n' (d = 1) and 'p' (d = -1)
KeyTurn(d) ==
    /\ mainloop.pc = "paged"
    /\ LET total_pages == Len(mainloop.caches)
           page == ((mainloop.page - 1 + d) % total_pages) + 1
       IN mainloop' = [mainloop EXCEPT !.page = page]
    /\ obs' = NoCall
    /\ UNCHANGED <<now, fs, recs, cachefiles, active_threads, task, fixer>>

\* 'r' (lines 942-956): the snapshot file of the page's volume is deleted and
\* a thread is started unless the volume has an entry in active_threads.
RefreshStart(mount, T, st) ==
    /\ active_threads' = st.active
    /\ task' = st.task
    /\ obs' = Observe(obs, Call("refresh", mount, Val(st.task # T), FALSE))

\* line 946: cache_file.unlink() takes the name from the file; a thread that
\* holds the file open for writing keeps writing into it.
UnlinkedTasks(T, f) ==
    [m \in DOMAIN T |-> [s \in 1..MaxTasks |->
        IF SafeName(m) = f /\ T[m][s].pc = "dump"
        THEN [T[m][s] EXCEPT !.pc = "orphan"] ELSE T[m][s]]]

KeyRefresh ==
    /\ mainloop.pc = "paged"
    /\ cachefiles' = [cachefiles EXCEPT ![SafeName(PageMount)] = NoFile]
    /\ fixer' = IF fixer.pc = "dump" /\ fixer.file = SafeName(PageMount)
                THEN [fixer EXCEPT !.pc = "orphan"] ELSE fixer
    /\ \E budget \in Budgets(fs) :
          RefreshStart(PageMount, UnlinkedTasks(task, SafeName(PageMount)),
                       IF MayStart(active_threads, PageMount)
                       THEN StartThread(active_threads,
                                        UnlinkedTasks(task, SafeName(PageMount)),
                                        PageMount, budget, NoCache)
                       ELSE [active |-> active_threads,
                             task |-> UnlinkedTasks(task, SafeName(PageMount))])
    /\ UNCHANGED <<now, fs, recs, mainloop>>

\* lines 972-978: an unexpected exception in the paged mode; the outer loop
\* starts again with active_threads as it is.
M_Error ==
    /\ mainloop.pc = "paged"
    /\ mainloop' = MainAt("top", <<>>, 0)
    /\ obs' = NoCall
    /\ UNCHANGED <<now, fs, recs, cachefiles, active_threads, task, fixer>>

----------------------------------------------------------------------------
(* The whole program: main loop, rebuild threads and reconciler *)

MainDirs == {Vol, PathA, PathB}

\* Snapshots left by earlier runs: an outdated one, and one written
\* DISK_CACHE_VALIDITY_HOURS ago whose level-1 size is below its level-2 size.
EarlierSnapshots(m, t) ==
    { NoFile,
      OldSnapshot(m, t - DISK_CACHE_VALIDITY_HOURS - 1),
      Json([disk_mount |-> m, timestamp |-> t - DISK_CACHE_VALIDITY_HOURS, percent |-> 1,
            level_1 |-> <<Level1Item(Join(m, "p"), 1,
                             <<Level2Item(Join(Join(m, "p"), "q"), 2, <<>>)>>)>>]) }

Init ==
    /\ now = StartNow
    /\ fs = [d \in MainDirs |->
               Dir(1, 1 + Len(d), "rwx",
                   IF d = Vol THEN <<>> ELSE <<File(Len(d), TRUE)>>)]
    /\ recs = [d \in MainDirs |-> NoFile]
    /\ \E c1 \in EarlierSnapshots(Vol, now) :
          cachefiles = [f \in {SafeName(Vol)} |-> c1]
    /\ active_threads = [m \in {Vol} |-> 0]
    /\ task = [m \in {Vol} |-> [s \in 1..MaxTasks |-> NoTask]]
    /\ mainloop = StartMain
    /\ fixer = SleepingFixer
    /\ obs = NoCall

Next ==
    \/ M_Pass
    \/ KeyQuit
    \/ \E d \in {1, -1} : KeyTurn(d)
    \/ KeyRefresh
    \/ M_Error
    \/ \E m \in DOMAIN task, s \in 1..MaxTasks : TaskStep(m, s)
    \/ FixStep
    \/ Tick

Spec == Init /\ [][Next]_vars

----------------------------------------------------------------------------
(* Properties of the record files and the calculator *)

\* The record of p is complete, young enough and carries p's signature.
RecordAcceptable(p) ==
    /\ recs[p].kind = "json"
    /\ {"timestamp", "size", "signature"} \subseteq DOMAIN recs[p].data
    /\ now - recs[p].data.timestamp <= FOLDER_CACHE_VALIDITY_HOURS
    /\ recs[p].data.signature = calculate_folder_signature(fs, p)

SecondCalc == obs.op = "calc" /\ obs.prev.op = "calc"

\* C4 as stated: of two successive calls of calculate_folder_size_with_cache
\* on a directory, the second returns what the first returned and walks nothing.
C4_Stated ==
    SecondCalc => (obs.ret = obs.prev.ret /\ ~obs.walked)

\* C4: when the first of two successive calls was answered from a record, or
\* returned a positive value for a directory the process can write to, the
\* second call returns the same value and does not walk.
C4_Idempotent ==
    (/\ SecondCalc
     /\ obs.prev.ret.k = "val"
     /\ \/ ~obs.prev.walked
        \/ obs.prev.ret.v > 0 /\ Writable(fs, obs.path))
    => (obs.ret = obs.prev.ret /\ ~obs.walked)

\* A walk that found something was followed by a second call.
C4_Witness ==
    /\ SecondCalc
    /\ obs.prev.walked
    /\ obs.prev.ret.k = "val"
    /\ obs.prev.ret.v > 0
    /\ Writable(fs, obs.path)

\* C5: read_cached_folder_size returns the recorded size exactly when the
\* record is complete, at most 12 hours old and signed with the directory's
\* current signature; in every other case it returns None, and it never raises.
C5_CacheHitRule ==
    obs.op = "read" =>
        IF RecordAcceptable(obs.path)
        THEN obs.ret = Val(recs[obs.path].data.size)
        ELSE obs.ret = None

\* C6: a read that follows the re-creation of a directory does not accept the
\* record copied back into it.
C6_RecreatedIsMiss ==
    (obs.op = "read" /\ obs.prev.op = "recreate") => obs.ret.k # "val"

----------------------------------------------------------------------------
(* Properties of the main loop and the rebuild threads *)

RunningTasks(m) == {s \in 1..MaxTasks : Alive(task[m][s])}

\* C1: in every reachable state each volume has at most one running rebuild
\* thread, whatever scheduling passes, manual refreshes and restarts of the
\* main loop after an error have taken place.
C1_AtMostOneRebuild == \A m \in DOMAIN task : Cardinality(RunningTasks(m)) <= 1

\* C1, its case: 'r' has just been pressed for a volume whose rebuild is in
\* flight, and no thread was started.
C1_Witness ==
    /\ obs.op = "refresh"
    /\ obs.ret = Val(FALSE)
    /\ RunningTasks(obs.path) # {}

SameNodesRaised(a, b) ==
    /\ Len(a) = Len(b)
    /\ \A i \in 1..Len(a) :
          /\ a[i].path = b[i].path
          /\ a[i].size <= b[i].size
          /\ Len(a[i].level_2) = Len(b[i].level_2)
          /\ \A j \in 1..Len(a[i].level_2) :
                /\ a[i].level_2[j].path = b[i].level_2[j].path
                /\ a[i].level_2[j].size <= b[i].level_2[j].size
                /\ a[i].level_2[j].level_3 = b[i].level_2[j].level_3

C9_ManualOverride ==
    [][(KeyRefresh /\ RunningTasks(PageMount) = {})
         => /\ cachefiles'[SafeName(PageMount)] = NoFile
            /\ \E s \in 1..MaxTasks : Alive(task'[PageMount][s])]_vars

----------------------------------------------------------------------------
(* Properties of the reconciler *)

Sum2(level1) == SumSeq([j \in 1..Len(level1.level_2) |-> level1.level_2[j].size])

\* C3 as stated: once a pass has dealt with a snapshot file, every level-1
\* node that was below the sum of its level-2 nodes equals the sum of its
\* level-2 nodes as persisted, and no level-1 or level-2 size went down.
C3_MonotonicCorrection ==
    (fixer.pc = "scan" /\ fixer.before # None /\ cachefiles[fixer.file].kind = "json")
    => LET before == fixer.before.v.level_1
           after == cachefiles[fixer.file].data.level_1
       IN /\ Len(after) = Len(before)
          /\ \A i \in 1..Len(before) :
                /\ after[i].size >= before[i].size
                /\ Len(after[i].level_2) = Len(before[i].level_2)
                /\ \A j \in 1..Len(before[i].level_2) :
                      after[i].level_2[j].size >= before[i].level_2[j].size
                /\ before[i].size < Sum2(before[i]) => after[i].size = Sum2(after[i])

----------------------------------------------------------------------------
(* Properties of one rebuild *)

\* Bytes of the files below d.
RECURSIVE BytesBelow(_, _)
BytesBelow(F, d) ==
    SumSeq([i \in 1..Len(F[d].files) |-> F[d].files[i].size])
    + SumSeq([k \in 1..Len(SubdirSeq(F, d)) |-> BytesBelow(F, SubdirSeq(F, d)[k])])

Readable(F, d) == \A e \in DOMAIN F : IsUnder(d, e) => ~Denied(F, e)

\* list holds exactly the top_n largest subdirectories of d, largest first.
IsTopN(F, d, list, top_n) ==
    LET subdirs == SubdirSeq(F, d)
        listed == {list[k].path : k \in 1..Len(list)}
    IN /\ Len(list) = top_n
       /\ \A k \in 1..Len(list) :
             /\ \E i \in 1..Len(subdirs) : subdirs[i] = list[k].path
             /\ list[k].size = BytesBelow(F, list[k].path)
             /\ k < Len(list) => list[k].size > list[k + 1].size
       /\ \A i \in 1..Len(subdirs) :
             subdirs[i] \notin listed => BytesBelow(F, subdirs[i]) < list[top_n].size

\* d has more than top_n subdirectories, their sizes are distinct and can
\* all be taken.
ManyDistinct(F, d, top_n) ==
    LET subdirs == SubdirSeq(F, d) IN
    /\ Len(subdirs) > top_n
    /\ Readable(F, d)
    /\ \A i, j \in 1..Len(subdirs) :
          i # j => BytesBelow(F, subdirs[i]) # BytesBelow(F, subdirs[j])

\* The snapshot a finished rebuild of m left.
Built(m, s) ==
    /\ task[m][s].pc = "done"
    /\ task[m][s].out = "saved"
    /\ cachefiles[SafeName(m)].kind = "json"

\* C7: in the snapshot a rebuild wrote, every node with more than TOP_N
\* subdirectories of distinct sizes lists exactly the TOP_N largest of them
\* in descending order of size, at level 1, 2 and 3, whether the sizes came
\* from du or from the per-directory calculator (walks not cut short by the
\* time ceiling).
C7_TopNTruncation ==
    \A m \in DOMAIN task, s \in 1..MaxTasks :
        (Built(m, s) /\ task[m][s].budget = Cardinality(DOMAIN fs))
        => LET level_1 == cachefiles[SafeName(m)].data.level_1 IN
           /\ ManyDistinct(fs, m, TOP_N) => IsTopN(fs, m, level_1, TOP_N)
           /\ \A i \in 1..Len(level_1) :
                 /\ ManyDistinct(fs, level_1[i].path, TOP_N)
                       => IsTopN(fs, level_1[i].path, level_1[i].level_2, TOP_N)
                 /\ \A j \in 1..Len(level_1[i].level_2) :
                       ManyDistinct(fs, level_1[i].level_2[j].path, TOP_N)
                       => IsTopN(fs, level_1[i].level_2[j].path,
                                 level_1[i].level_2[j].level_3, TOP_N)

\* C7, its case: a snapshot was written for a volume with more than TOP_N
\* subdirectories, one of which has more than TOP_N, one of which has more
\* than TOP_N again.
C7_Witness ==
    \E m \in DOMAIN task, s \in 1..MaxTasks :
        /\ Built(m, s)
        /\ task[m][s].budget = Cardinality(DOMAIN fs)
        /\ ManyDistinct(fs, m, TOP_N)
        /\ LET level_1 == cachefiles[SafeName(m)].data.level_1 IN
           \E i \in 1..Len(level_1) :
              /\ ManyDistinct(fs, level_1[i].path, TOP_N)
              /\ \E j \in 1..Len(level_1[i].level_2) :
                    ManyDistinct(fs, level_1[i].level_2[j].path, TOP_N)

\* C8 as stated: a rebuild of a readable volume that has subdirectories ends
\* with a snapshot that lists subdirectories of the volume, also when du
\* gave no sizes and the per-directory calculator had to supply them.
C8_FallbackProducesSnapshot ==
    \A m \in DOMAIN task, s \in 1..MaxTasks :
        (task[m][s].pc = "done" /\ ~Denied(fs, m) /\ SubdirSeq(fs, m) # <<>>)
        => /\ Built(m, s)
           /\ cachefiles[SafeName(m)].data.level_1 # <<>>

----------------------------------------------------------------------------
(* Properties of the scheduler *)

\* A thread that runs for m exists after the step and did not before it.
Launched(m) ==
    \E s \in 1..MaxTasks : task'[m][s].pc = "scan" /\ task[m][s].pc # "scan"

\* The snapshot load_cache returns for m is at most 3 hours old.
Fresh(m) ==
    LET l == load_cache(cachefiles, m) IN
    l # NoCache /\ now - l.ts.v <= DISK_CACHE_VALIDITY_HOURS

\* C11: a scheduling pass launches a rebuild for a volume exactly when the
\* volume has no loadable snapshot or one that is more than 3 hours old, and
\* no rebuild is running for it; a volume with a fresh snapshot is not rebuilt
\* by the pass.
C11_SchedulerTransitions ==
    [][M_Pass => \A m \in DOMAIN task :
                    /\ Launched(m) <=> (~Fresh(m) /\ RunningTasks(m) = {})
                    /\ Fresh(m) => ~Launched(m)]_vars

\* C11, its case: a pass has just looked at a snapshot that is exactly 3 hours
\* old, shown it and launched nothing.
C11_Witness ==
    /\ mainloop.pc = "paged"
    /\ \E m \in DOMAIN task :
          /\ Fresh(m)
          /\ now - load_cache(cachefiles, m).ts.v = DISK_CACHE_VALIDITY_HOURS
          /\ active_threads[m] = 0
          /\ \A s \in 1..MaxTasks : task[m][s] = NoTask

----------------------------------------------------------------------------
(* One rebuild and the clock *)

\* Vol with two subdirectories of three subdirectories each: after the
\* timestamp is taken the rebuild calls du eight times, each call being
\* allowed 30 minutes (timeout=1800).
LongDirs ==
    {Vol}
    \cup {Join(Vol, Six[i]) : i \in 1..2}
    \cup {Join(Join(Vol, Six[i]), Six[j]) : i \in 1..2, j \in 1..3}

InitLong ==
    /\ now = StartNow
    /\ \E deny \in {<<>>, Join(Join(Vol, "p"), "q")} :
          fs = [d \in LongDirs |->
                  Dir(1, Len(d) * 10 + (IF Len(d) >= 4 THEN 3 * NameIdx(d[4]) ELSE 0)
                                      + (IF Len(d) >= 6 THEN NameIdx(d[6]) ELSE 0),
                      IF d = deny THEN "---" ELSE "rwx",
                      IF d = Vol THEN <<>> ELSE <<File(Len(d), TRUE)>>)]
    /\ recs = [d \in DOMAIN fs |-> NoFile]
    /\ \E old \in {NoFile, OldSnapshot(Vol, StartNow - DISK_CACHE_VALIDITY_HOURS - 1)} :
          cachefiles = [f \in {SafeName(Vol)} |-> old]
    /\ active_threads = [m \in {Vol} |-> 1]
    /\ \E b \in Budgets(fs) :
          task = [m \in {Vol} |-> [s \in 1..MaxTasks |->
                                      IF s = 1 THEN NewTask(b, load_cache(cachefiles, m))
                                      ELSE NoTask]]
    /\ mainloop = IdleMain
    /\ fixer = IdleFixer
    /\ obs = NoCall

\* An hour passes while the rebuild sizes directories, or when it is over;
\* the steps that write the snapshot file take no hours.
LongTick ==
    /\ now < StartNow + MaxBuildHours
    /\ \A m \in DOMAIN task : \A s \in 1..MaxTasks :
          task[m][s].pc \notin {"persist", "dump"}
    /\ now' = now + 1
    /\ obs' = NoCall
    /\ UNCHANGED <<fs, recs, cachefiles, active_threads, task, mainloop, fixer>>

NextLong ==
    \/ \E m \in DOMAIN task, s \in 1..MaxTasks : TaskStep(m, s)
    \/ LongTick

SpecLong == InitLong /\ [][NextLong]_vars

\* C12 as stated: at the step that persists the snapshot of a rebuild, the
\* snapshot is loadable and at most 3 hours old, so that the next scheduling
\* pass launches nothing for the volume.
C12_FreshWhenPersisted ==
    [][\A m \in DOMAIN task : \A s \in 1..MaxTasks :
          TaskDump(m, s)
             => LET l == load_cache(cachefiles', m) IN
                l # NoCache /\ ~is_cache_outdated(now', l.ts)]_vars

----------------------------------------------------------------------------
(* The whole program, the main loop running for ever *)

\* Snapshots left by earlier runs, all of them outdated: one that needs no
\* correction and one whose level-1 size is below its level-2 size.
OutdatedSnapshots(m, t) ==
    { NoFile,
      OldSnapshot(m, t - DISK_CACHE_VALIDITY_HOURS - 1),
      Json([disk_mount |-> m, timestamp |-> t - DISK_CACHE_VALIDITY_HOURS - 1,
            percent |-> 1,
            level_1 |-> <<Level1Item(Join(m, "p"), 1,
                             <<Level2Item(Join(Join(m, "p"), "q"), 2, <<>>)>>)>>]) }

\* Vol cannot be listed (every rebuild raises at line 408), has no
\* subdirectory (every rebuild returns at line 411) or has one.
InitLive ==
    /\ now = StartNow
    /\ \E shape \in {"denied", "empty", "one"} :
          fs = [d \in (IF shape = "one" THEN {Vol, PathA} ELSE {Vol}) |->
                  Dir(1, 1 + Len(d), IF shape = "denied" THEN "---" ELSE "rwx",
                      IF d = Vol THEN <<>> ELSE <<File(Len(d), TRUE)>>)]
    /\ recs = [d \in DOMAIN fs |-> NoFile]
    /\ \E c1 \in OutdatedSnapshots(Vol, now) :
          cachefiles = [f \in {SafeName(Vol)} |-> c1]
    /\ active_threads = [m \in {Vol} |-> 0]
    /\ task = [m \in {Vol} |-> [s \in 1..MaxTasks |-> NoTask]]
    /\ mainloop = StartMain
    /\ fixer = SleepingFixer
    /\ obs = NoCall

NextLive ==
    \/ M_Pass
    \/ KeyQuit
    \/ \E d \in {1, -1} : KeyTurn(d)
    \/ KeyRefresh
    \/ M_Error
    \/ \E m \in DOMAIN task, s \in 1..MaxTasks : TaskStep(m, s)
    \/ FixStep

\* The outer loop starts its next pass after time.sleep(2), and the paged
\* mode is left at the latest when select times out (lines 912, 959-962).
SpecLive ==
    InitLive /\ [][NextLive]_vars /\ WF_vars(M_Pass) /\ WF_vars(KeyQuit)

\* The thread in slot s of m is over and active_threads still holds it.
StaleMarker(m, s) == active_threads[m] = s /\ task[m][s].pc = "done"

\* The rebuild in slot s of m is over and wrote no snapshot.
EndedWithoutSnapshot(m, s) ==
    task[m][s].pc = "done" /\ task[m][s].out \in {"failed", "nodirs"}

\* C13: when the main loop keeps running, the entry of a rebuild thread that
\* is over, whether it saved a snapshot or not, is eventually removed from
\* active_threads, and a volume whose rebuild ended without a snapshot
\* eventually has a new rebuild running.
C13_MarkerClearedAndRetry ==
    \A m \in {Vol} : \A s \in 1..MaxTasks :
        /\ StaleMarker(m, s) ~> ~StaleMarker(m, s)
        /\ EndedWithoutSnapshot(m, s) ~> (RunningTasks(m) # {})

\* C13, its case: a rebuild has failed while the main loop is in the paged
\* mode, where entries are not cleaned, and its entry is still there.
C13_Witness ==
    /\ mainloop.pc = "paged"
    /\ \E s \in 1..MaxTasks : StaleMarker(Vol, s) /\ task[Vol][s].out = "failed"

----------------------------------------------------------------------------
(* Properties of the reconciler's writes *)

\* Some level-1 or level-2 size of fixed is above the size data has for it.
NodeCorrected(data, fixed) ==
    \E i \in 1..Len(data.level_1) :
        \/ fixed.level_1[i].size > data.level_1[i].size
        \/ \E j \in 1..Len(data.level_1[i].level_2) :
              fixed.level_1[i].level_2[j].size > data.level_1[i].level_2[j].size

\* C14: a step of the reconciler changes a snapshot file only if the pass
\* raised the size of at least one node of the snapshot it read from that
\* file; the file of a snapshot that needed no correction is not touched.
C14_WritesOnlyOnCorrection ==
    [][\A f \in DOMAIN cachefiles :
          cachefiles'[f] # cachefiles[f]
             => /\ fixer.file = f
                /\ fixer.before # None
                /\ NodeCorrected(fixer.before.v, fixer.data.v)]_vars

\* C14, its case: the pass has read a snapshot in which no node is below the
\* sum of its children, and has gone on with the file as it was.
C14_Witness ==
    /\ fixer.pc = "scan"
    /\ fixer.before # None
    /\ fixer.data = fixer.before
    /\ \E i \in 1..Len(fixer.before.v.level_1) :
          fixer.before.v.level_1[i].level_2 # <<>>
    /\ cachefiles[fixer.file] = Json(fixer.before.v)

\* The calls write_cached_folder_size(path, size) of the step that has just
\* read and corrected a snapshot.
CorrectionWrites ==
    IF fixer'.before = None THEN <<>>
    ELSE FixWrites1(fixer'.before.v.level_1, fixer'.data.v.level_1, 1)

\* A call of calculate_folder_size_with_cache(path) made after the step
\* returns size without walking, however much time a walk would be given.
AnsweredWith(path, size) ==
    \A b \in Budgets(fs) :
        LET r == calculate_folder_size_with_cache(fs, recs', now, path, b) IN
        r.ret = Val(size) /\ ~r.walked

\* C15 as stated: for every node the reconciler raises, a following
\* calculate_folder_size_with_cache on the node's path returns the
\* corrected size.
C15_Stated ==
    [][\A f \in DOMAIN cachefiles :
          FixRead(f) => \A k \in 1..Len(CorrectionWrites) :
                           AnsweredWith(CorrectionWrites[k].path,
                                        CorrectionWrites[k].size)]_vars

\* C15, amended: for every node the reconciler raises whose directory
\* exists and can be written to by the process, the record of the directory
\* holds the corrected size after the step and a following
\* calculate_folder_size_with_cache on the path returns it without walking.
C15_RecordFollowsCorrection ==
    [][\A f \in DOMAIN cachefiles :
          FixRead(f) => \A k \in 1..Len(CorrectionWrites) :
                           Writable(fs, CorrectionWrites[k].path)
                              => /\ recs'[CorrectionWrites[k].path].kind = "json"
                                 /\ recs'[CorrectionWrites[k].path].data.size
                                       = CorrectionWrites[k].size
                                 /\ AnsweredWith(CorrectionWrites[k].path,
                                                 CorrectionWrites[k].size)]_vars

\* C15, its case: the pass has raised a level-1 node and a level-2 node of
\* the snapshot it read, and the records of both directories hold the
\* corrected sizes.
C15_Witness ==
    /\ fixer.before # None
    /\ \E i \in 1..Len(fixer.before.v.level_1) :
          /\ fixer.data.v.level_1[i].size > fixer.before.v.level_1[i].size
          /\ RecordAcceptable(fixer.before.v.level_1[i].path)
          /\ recs[fixer.before.v.level_1[i].path].data.size
                = fixer.data.v.level_1[i].size
          /\ \E j \in 1..Len(fixer.before.v.level_1[i].level_2) :
                /\ fixer.data.v.level_1[i].level_2[j].size
                      > fixer.before.v.level_1[i].level_2[j].size
                /\ RecordAcceptable(fixer.before.v.level_1[i].level_2[j].path)
                /\ recs[fixer.before.v.level_1[i].level_2[j].path].data.size
                      = fixer.data.v.level_1[i].level_2[j].size

----------------------------------------------------------------------------
(* Properties of concurrent reads and writes of the snapshot files *)

\* C16 as stated: the load_cache calls of a scheduling pass never find a
\* snapshot file that a rebuild or the reconciler has emptied and not yet
\* written; and a pass launches no rebuild for a volume whose snapshot was
\* fresh when the reconciler opened its file for writing.
C16_OldOrNewVisible ==
    [][M_Pass => \A m \in DOMAIN task :
                    /\ cachefiles[SafeName(m)].kind # "torn"
                    /\ (/\ fixer.pc = "dump"
                        /\ fixer.file = SafeName(m)
                        /\ ~is_cache_outdated(now, Val(fixer.before.v.timestamp)))
                          => ~Launched(m)]_vars

----------------------------------------------------------------------------
(* Properties of the calculator's error handling *)

\* C18 as stated: a call of calculate_folder_size_with_cache returns a
\* number, whatever the directory; no exception reaches the caller.
C18_CalculatorNeverRaises ==
    obs.op = "calc" => (obs.ret.k = "val" /\ obs.ret.v >= 0)

----------------------------------------------------------------------------
(* Properties of the foreground loop *)

\* A step of the foreground loop: a pass of the outer loop or a key, a
\* timeout or an error in the paged mode.
MainStep ==
    \/ M_Pass
    \/ KeyQuit
    \/ \E d \in {1, -1} : KeyTurn(d)
    \/ KeyRefresh
    \/ M_Error

\* The thread tk where it is, the file it holds open having lost its name.
SameUnlinked(tk) == IF tk.pc = "dump" THEN [tk EXCEPT !.pc = "orphan"] ELSE tk

\* C19: no step of the foreground loop computes a size: it writes no record
\* file and leaves every running rebuild where it is; and while a rebuild is
\* running the outer loop can take its pass and the paged mode can handle
\* every key and its timeout.
C19_NonBlockingForeground ==
    /\ [][MainStep => /\ recs' = recs
                      /\ \A m \in DOMAIN task : \A s \in RunningTasks(m) :
                            task'[m][s] \in {task[m][s], SameUnlinked(task[m][s])}]_vars
    /\ [](\A m \in {Vol} : RunningTasks(m) # {}
             => /\ mainloop.pc = "top" => ENABLED M_Pass
                /\ mainloop.pc = "paged"
                      => /\ ENABLED KeyQuit
                         /\ ENABLED KeyTurn(1)
                         /\ ENABLED KeyRefresh)

\* C19, its case: 'r' has just been handled in the paged mode while a
\* rebuild is in the middle of sizing directories.
C19_Witness ==
    /\ obs.op = "refresh"
    /\ mainloop.pc = "paged"
    /\ \E s \in RunningTasks(Vol) : task[Vol][s].pc \in {"level2", "level3"}

----------------------------------------------------------------------------
(* Rebuilds of two volumes at the same time *)

\* Two mount points: /a/p, and either /a/q or /a_p.
MountP == Join(Vol, "p")
MountQ == Join(Vol, "q")

InitTwo ==
    /\ now = StartNow
    /\ \E other \in {MountQ, <<"/", "a", "_", "p">>}, n \in 1..2 :
          /\ fs = [d \in {MountP, Join(MountP, "q"), other, Join(other, "q")} |->
                     Dir(IF IsUnder(MountP, d) THEN 1 ELSE 2, Len(d), "rwx",
                         IF Len(d) = 4 THEN <<>>
                         ELSE <<File(IF IsUnder(MountP, d) THEN n ELSE n + 2, TRUE)>>)]
          /\ cachefiles = [f \in {SafeName(MountP), SafeName(other)} |-> NoFile]
          /\ active_threads = [m \in {MountP, other} |-> 1]
          /\ \E b \in Budgets(fs) :
                task = [m \in {MountP, other} |-> [s \in 1..MaxTasks |->
                           IF s = 1 THEN NewTask(b, NoCache) ELSE NoTask]]
    /\ recs = [d \in DOMAIN fs |-> NoFile]
    /\ mainloop = IdleMain
    /\ fixer = IdleFixer
    /\ obs = NoCall

NextTwo == \E m \in DOMAIN task, s \in 1..MaxTasks : TaskStep(m, s)

SpecTwo == InitTwo /\ [][NextTwo]_vars

\* C20 as stated: rebuilds of different volumes never have the same snapshot
\* file open for writing, and the file load_cache reads for a volume holds,
\* once a rebuild has written it, a snapshot of that volume.
C20_DisjointSnapshotFiles ==
    /\ \A m1 \in DOMAIN task : \A m2 \in DOMAIN task \ {m1} :
          \A s1 \in 1..MaxTasks : \A s2 \in 1..MaxTasks :
             (task[m1][s1].pc = "dump" /\ task[m2][s2].pc = "dump")
                => SafeName(m1) # SafeName(m2)
    /\ \A m \in DOMAIN task :
          cachefiles[SafeName(m)].kind = "json"
             => cachefiles[SafeName(m)].data.disk_mount = m

----------------------------------------------------------------------------
(* The whole program on two volumes, one of which cannot be rebuilt *)

\* Vol has one subdirectory; VolB cannot be listed, so that every rebuild of
\* it raises at line 408, and its snapshot file is missing, outdated or left
\* incomplete by a write that was interrupted.
InitIso ==
    /\ now = StartNow
    /\ fs = [d \in {Vol, PathA, VolB} |->
               Dir(IF d = VolB THEN 2 ELSE 1, 1 + Len(d),
                   IF d = VolB THEN "---" ELSE "rwx",
                   IF d = PathA THEN <<File(1, TRUE)>> ELSE <<>>)]
    /\ recs = [d \in DOMAIN fs |-> NoFile]
    /\ \E c1 \in EarlierSnapshots(Vol, now),
          c2 \in {NoFile, Torn, OldSnapshot(VolB, now - DISK_CACHE_VALIDITY_HOURS - 1)} :
          cachefiles = [f \in {SafeName(Vol), SafeName(VolB)} |->
                           IF f = SafeName(Vol) THEN c1 ELSE c2]
    /\ active_threads = [m \in {Vol, VolB} |-> 0]
    /\ task = [m \in {Vol, VolB} |-> [s \in 1..MaxTasks |-> NoTask]]
    /\ mainloop = StartMain
    /\ fixer = SleepingFixer
    /\ obs = NoCall

NextIso ==
    \/ M_Pass
    \/ KeyQuit
    \/ \E d \in {1, -1} : KeyTurn(d)
    \/ KeyRefresh
    \/ M_Error
    \/ \E m \in DOMAIN task, s \in 1..MaxTasks : TaskStep(m, s)
    \/ FixStep

SpecIso == InitIso /\ [][NextIso]_vars

\* The thread in slot s of m ends in this step without having opened the
\* snapshot file: it raised, had nothing to save or found no subdirectory.
EndsWithoutSaving(m, s) ==
    Alive(task[m][s]) /\ ~Alive(task'[m][s]) /\ task[m][s].pc \notin {"dump", "orphan"}

\* The step changes nothing outside the rebuild of m: not the main loop, the
\* reconciler, the snapshot files, active_threads, the threads of other
\* volumes or the record files outside m.
OthersUntouched(m) ==
    /\ mainloop' = mainloop
    /\ fixer' = fixer
    /\ cachefiles' = cachefiles
    /\ active_threads' = active_threads
    /\ \A m2 \in DOMAIN task \ {m} : task'[m2] = task[m2]
    /\ \A d \in DOMAIN recs : ~IsUnder(m, d) => recs'[d] = recs[d]

\* The snapshots the pass hands to the display are those of the volumes
\* whose snapshot it could load.
Displayed(m) == \E k \in 1..Len(mainloop'.caches) : mainloop'.caches[k].mount = m

\* C17: a rebuild that ends in an error changes nothing outside its own
\* volume; a snapshot file the reconciler cannot read is skipped and the
\* remaining files of the pass are still processed; and a scheduling pass
\* launches a rebuild for a volume, and displays it, by the state of that
\* volume alone, whatever happened to the rebuilds of the others.
C17_FailureIsolation ==
    [][/\ \A m \in DOMAIN task : \A s \in 1..MaxTasks :
             EndsWithoutSaving(m, s) => OthersUntouched(m)
       /\ \A f \in DOMAIN cachefiles :
             (FixRead(f) /\ cachefiles[f].kind # "json")
                => /\ fixer'.pc = "scan"
                   /\ fixer'.todo = fixer.todo \ {f}
                   /\ UNCHANGED <<cachefiles, recs, task, active_threads, mainloop>>
       /\ M_Pass => \A m \in DOMAIN task :
                       /\ Launched(m) <=> (~Fresh(m) /\ RunningTasks(m) = {})
                       /\ Displayed(m) <=> load_cache(cachefiles, m) # NoCache]_vars

\* C17, its case: the rebuild of VolB has failed and the reconciler has just
\* skipped VolB's unreadable snapshot file, while the rebuild of Vol is under
\* way and the snapshot file of Vol is still to be processed.
C17_Witness ==
    /\ \E s \in 1..MaxTasks : task[VolB][s].out = "failed"
    /\ RunningTasks(Vol) # {}
    /\ fixer.pc = "scan"
    /\ fixer.file = SafeName(VolB)
    /\ fixer.before = None
    /\ SafeName(Vol) \in fixer.todo

\* ---------------------------------------------------------------------
\* The tree on the screen
\* ---------------------------------------------------------------------

\* lines 621-630 and 639-648: the line of a node with its children: the size
\* shown is the larger of the node's size and the sum of its children's, and
\* the mark '+' is put when the sum is the larger.
ShownLine(level, node, children) ==
    LET sum_children == SumSeq(Sizes(children)) IN
    [level |-> level, path |-> node.path,
     size |-> IF sum_children > node.size THEN sum_children ELSE node.size,
     plus |-> sum_children > node.size]

\* lines 636-657 for one level-2 node; a level-3 line (652-657) shows the
\* size as it is.
ShownLevel2(level2, max_levels) ==
    <<ShownLine(2, level2, level2.level_3)>>
    \o (IF max_levels >= 3
        THEN [k \in 1..Len(level2.level_3) |->
                 [level |-> 3, path |-> level2.level_3[k].path,
                  size |-> level2.level_3[k].size, plus |-> FALSE]]
        ELSE <<>>)

\* lines 620-657 for one level-1 node
ShownLevel1(level1, max_levels) ==
    <<ShownLine(1, level1, level1.level_2)>>
    \o (IF max_levels >= 2
        THEN Concat([j \in 1..Len(level1.level_2) |->
                        ShownLevel2(level1.level_2[j], max_levels)])
        ELSE <<>>)

\* The lines of the tree, top to bottom.
display_hierarchical_data(hierarchical_data, max_levels) ==
    Concat([i \in 1..Len(hierarchical_data) |->
               ShownLevel1(hierarchical_data[i], max_levels)])

\* The reconciler has just written the corrected snapshot back to its file.
WrittenBack ==
    /\ fixer.pc = "scan"
    /\ fixer.before # None
    /\ fixer.data # fixer.before
    /\ cachefiles[fixer.file] = Json(fixer.data.v)

\* The paths of the nodes whose size the pass raised.
RaisedPaths(data, fixed) ==
    {data.level_1[i].path : i \in {k \in 1..Len(data.level_1) :
                                     fixed.level_1[k].size > data.level_1[k].size}}
    \cup UNION {{data.level_1[i].level_2[j].path :
                    j \in {k \in 1..Len(data.level_1[i].level_2) :
                             fixed.level_1[i].level_2[k].size
                                > data.level_1[i].level_2[k].size}} :
                i \in 1..Len(data.level_1)}

PlusPaths(lines) == {lines[k].path : k \in {n \in 1..Len(lines) : lines[n].plus}}

\* C21: once the reconciler has written a corrected snapshot back, the tree
\* shown from that snapshot marks with '+' every node whose size the pass
\* raised.
C21_CorrectedNodesShownWithPlus ==
    WrittenBack =>
        RaisedPaths(fixer.before.v, fixer.data.v)
            \subseteq PlusPaths(display_hierarchical_data(
                                    load_cache(cachefiles, Vol).data.v, 3))

\* ---------------------------------------------------------------------
\* The walk with the records of subdirectories
\* ---------------------------------------------------------------------

\* The bytes of the files of d that can be read, the record file included.
ReadableFileBytes(d) ==
    SumSeq([i \in 1..Len(fs[d].files) |->
               IF fs[d].files[i].ok THEN fs[d].files[i].size ELSE 0])
    + FileLen(recs[d])

\* What a walk of d adds up when every subdirectory with a valid record is
\* taken from its record and every other one is descended into; a directory
\* that cannot be listed has nothing to add.
RECURSIVE WalkWithChildCaches(_)
WalkWithChildCaches(d) ==
    IF Denied(fs, d) THEN 0
    ELSE ReadableFileBytes(d)
         + SumSeq([i \in 1..Len(SubdirSeq(fs, d)) |->
                      IF RecordAcceptable(SubdirSeq(fs, d)[i])
                      THEN recs[SubdirSeq(fs, d)[i]].data.size
                      ELSE WalkWithChildCaches(SubdirSeq(fs, d)[i])])

\* The os.walk loop is not cut short.
WholeWalk == Cardinality(DOMAIN fs)

\* C22: a call of calculate_folder_size_with_cache that finds no record for
\* its path and walks to the end returns the bytes of the readable files of
\* the directories it descends into plus the recorded sizes of the
\* subdirectories with a valid record, which it does not descend into.
C22_WalkWithChildCaches ==
    [][\A d \in DOMAIN fs :
          (CallCalc(d, WholeWalk) /\ obs'.walked)
             => obs'.ret = Val(WalkWithChildCaches(d))]_vars

\* The step is a call of calculate_folder_size_with_cache that walked.
WalkedCall == obs'.op = "calc" /\ obs'.walked

\* The record files after a record of the returned value was written.
WithNewRecord ==
    [recs EXCEPT ![obs'.path] =
        Json(RecordData(now, obs'.ret.v, calculate_folder_signature(fs, obs'.path)))]

\* C23 as stated: a call that walked writes a record holding the value it
\* returns when that value is positive, and writes nothing when it is 0.
C23_Stated ==
    [][WalkedCall =>
          IF obs'.ret.v > 0 THEN recs' = WithNewRecord ELSE recs' = recs]_vars

\* C23: a call that walked writes a record holding the value it returns when
\* that value is positive and the process can write to the directory, the
\* partial total of a walk that was cut short included; when the value is 0,
\* or the directory cannot be written to, no record file changes.
C23_PersistIfPositive ==
    [][WalkedCall =>
          IF obs'.ret.v > 0 /\ Writable(fs, obs'.path)
          THEN recs' = WithNewRecord
          ELSE recs' = recs]_vars

\* A walk of the volume was cut short after the volume's own 2 bytes, and
\* the record holds them.
C23_Witness ==
    /\ obs.op = "calc"
    /\ obs.walked
    /\ obs.path = Vol
    /\ obs.ret = Val(2)
    /\ recs[Vol] = Json(RecordData(now, 2, calculate_folder_signature(fs, Vol)))

\* ---------------------------------------------------------------------
\* Level 2 after a pass
\* ---------------------------------------------------------------------

\* The reconciler has finished with a snapshot file it could read: the file
\* holds the snapshot as the pass leaves it.
PassedOver ==
    /\ fixer.pc = "scan"
    /\ fixer.before # None
    /\ cachefiles[fixer.file] = Json(fixer.data.v)

\* The level-2 nodes of a snapshot as pairs of positions.
Level2Places(data) ==
    {<<i, j>> \in (1..Len(data.level_1)) \X (1..2) : j <= Len(data.level_1[i].level_2)}

Level2At(data, ij) == data.level_1[ij[1]].level_2[ij[2]]

\* C24: in the snapshot file a reconciler pass leaves behind, every level-2
\* node's size is at least the sum of its level-3 children's sizes, and is
\* that sum for every level-2 node that was below it in the snapshot the
\* pass read.
C24_Level2Reconciled ==
    PassedOver =>
        \A ij \in Level2Places(fixer.before.v) :
           LET was == Level2At(fixer.before.v, ij)
               is == Level2At(cachefiles[fixer.file].data, ij)
               sum_level3 == SumSeq(Sizes(is.level_3))
           IN /\ is.level_3 = was.level_3
              /\ is.size >= sum_level3
              /\ was.size < sum_level3 => is.size = sum_level3
              /\ was.size >= sum_level3 => is.size = was.size

\* A pass raised the second level-2 node to the size of its level-3 child.
C24_Witness ==
    /\ PassedOver
    /\ Len(fixer.before.v.level_1[1].level_2) = 2
    /\ fixer.before.v.level_1[1].level_2[2].size = 1
    /\ cachefiles[fixer.file].data.level_1[1].level_2[2].size = 5

\* ---------------------------------------------------------------------
\* The shape of a snapshot
\* ---------------------------------------------------------------------

\* At most top_n nodes in every list, three levels and nothing below.
ShapeWithin(level_1, top_n) ==
    /\ Len(level_1) <= top_n
    /\ \A i \in 1..Len(level_1) :
          /\ DOMAIN level_1[i] = {"path", "size", "level_2"}
          /\ Len(level_1[i].level_2) <= top_n
          /\ \A j \in 1..Len(level_1[i].level_2) :
                /\ DOMAIN level_1[i].level_2[j] = {"path", "size", "level_3"}
                /\ Len(level_1[i].level_2[j].level_3) <= top_n
                /\ \A k \in 1..Len(level_1[i].level_2[j].level_3) :
                      DOMAIN level_1[i].level_2[j].level_3[k] = {"path", "size"}

\* The level-3 nodes of a snapshot.
Leaves(level_1) ==
    SumSeq([i \in 1..Len(level_1) |->
              SumSeq([j \in 1..Len(level_1[i].level_2) |->
                        Len(level_1[i].level_2[j].level_3)])])

\* C25: the snapshot a rebuild wrote has at most TOP_N level-1 nodes, at
\* most TOP_N level-2 nodes under each of them and at most TOP_N level-3
\* nodes under each of those, hence at most TOP_N^3 level-3 nodes, which
\* have no children; the snapshot the reconciler makes of it has the same
\* shape.
C25_SnapshotShape ==
    \A m \in DOMAIN task, s \in 1..MaxTasks :
        Built(m, s)
        => /\ ShapeWithin(cachefiles[SafeName(m)].data.level_1, TOP_N)
           /\ Leaves(cachefiles[SafeName(m)].data.level_1) <= TOP_N * TOP_N * TOP_N
           /\ ShapeWithin(FixData(cachefiles[SafeName(m)].data).level_1, TOP_N)
           /\ Leaves(FixData(cachefiles[SafeName(m)].data).level_1)
                 = Leaves(cachefiles[SafeName(m)].data.level_1)

\* A snapshot with TOP_N nodes at each of the three levels was written for
\* a volume with six subdirectories, and the reconciler has sizes to correct
\* in it.
C25_Witness ==
    \E m \in DOMAIN task, s \in 1..MaxTasks :
        /\ Built(m, s)
        /\ Len(SubdirSeq(fs, m)) > TOP_N
        /\ Len(cachefiles[SafeName(m)].data.level_1) = TOP_N
        /\ \E i \in 1..TOP_N :
              /\ Len(cachefiles[SafeName(m)].data.level_1[i].level_2) = TOP_N
              /\ \E j \in 1..TOP_N :
                    Len(cachefiles[SafeName(m)].data.level_1[i].level_2[j].level_3) = TOP_N
        /\ FixData(cachefiles[SafeName(m)].data) # cachefiles[SafeName(m)].data

\* ---------------------------------------------------------------------
\* The order of the levels within a rebuild
\* ---------------------------------------------------------------------

SortedDesc(list) ==
    \A k \in 1..(Len(list) - 1) : list[k].size >= list[k + 1].size

\* Thread s of m takes a step from position pc.
TaskStepFrom(m, s, pc) == task[m][s].pc = pc /\ task'[m][s] # task[m][s]

\* The level-2 nodes retained under the level-1 node being worked on: those
\* whose level 3 is done and those still waiting for it.
RetainedLevel2(tk) ==
    [j \in 1..Len(tk.item.v.level_2) |->
        Pair(tk.item.v.level_2[j].path, tk.item.v.level_2[j].size)]
    \o tk.top2

\* The directories whose record file the step changes.
RecordsTouched == {d \in DOMAIN recs : recs'[d] # recs[d]}

\* C26: within a rebuild, a step that computes level 3 works on a level-2
\* node of a list that is already sized, sorted and cut to TOP_N under a
\* retained level-1 node, and touches nothing outside that level-2 node's
\* subdirectories; the step that sizes and selects the level-2 nodes of a
\* level-1 node computes no level 3.
C26_TopDownOrder ==
    [][\A m \in DOMAIN task, s \in 1..MaxTasks :
          /\ TaskStepFrom(m, s, "level3")
             => /\ task[m][s].item # None
                /\ task[m][s].item.v.path = Head(task[m][s].top1).path
                /\ task[m][s].top2 # <<>>
                /\ Len(RetainedLevel2(task[m][s])) <= TOP_N
                /\ SortedDesc(RetainedLevel2(task[m][s]))
                /\ \A k \in 1..Len(RetainedLevel2(task[m][s])) :
                      IsChild(task[m][s].item.v.path, RetainedLevel2(task[m][s])[k].path)
                /\ \A d \in RecordsTouched : IsChild(Head(task[m][s].top2).path, d)
                /\ task'[m][s].pc = "level3"
                   => /\ task'[m][s].top2 = Tail(task[m][s].top2)
                      /\ Len(task'[m][s].item.v.level_2)
                            = Len(task[m][s].item.v.level_2) + 1
          /\ TaskStepFrom(m, s, "level2")
             => /\ \A d \in RecordsTouched : IsChild(Head(task[m][s].top1).path, d)
                /\ task'[m][s].pc = "level3"
                   => task'[m][s].item.v.level_2 = <<>>]_vars

\* The level 3 of one level-2 node is done and the next one is waiting,
\* under a level-1 node with more than TOP_N subdirectories that the
\* per-directory calculator sized.
C26_Witness ==
    \E m \in DOMAIN task, s \in 1..MaxTasks :
        /\ task[m][s].pc = "level3"
        /\ Len(task[m][s].item.v.level_2) >= 1
        /\ task[m][s].top2 # <<>>
        /\ Len(SubdirSeq(fs, task[m][s].item.v.path)) > TOP_N
        /\ \E d \in DOMAIN recs :
              IsChild(task[m][s].item.v.path, d) /\ recs[d].kind = "json"

\* ---------------------------------------------------------------------
\* A rebuild that meets a directory it cannot read
\* ---------------------------------------------------------------------

\* Some directory below the volume cannot be listed.
HasUnreadableBelow(m) ==
    \E d \in DOMAIN fs : d # m /\ IsUnder(m, d) /\ Denied(fs, d)

\* C27: a rebuild of a readable volume below which some directory cannot be
\* listed still ends with a written snapshot; when the volume has at most
\* TOP_N subdirectories the snapshot lists every one of them that can be
\* read throughout, with the bytes found in it.
C27_UnreadableDirectorySkipped ==
    \A m \in DOMAIN task, s \in 1..MaxTasks :
        (/\ task[m][s].pc = "done"
         /\ task[m][s].budget = Cardinality(DOMAIN fs)
         /\ ~Denied(fs, m)
         /\ HasUnreadableBelow(m))
        => /\ Built(m, s)
           /\ Len(SubdirSeq(fs, m)) <= TOP_N
              => \A i \in 1..Len(SubdirSeq(fs, m)) :
                    Readable(fs, SubdirSeq(fs, m)[i])
                    => \E k \in 1..Len(cachefiles[SafeName(m)].data.level_1) :
                          /\ cachefiles[SafeName(m)].data.level_1[k].path
                                = SubdirSeq(fs, m)[i]
                          /\ cachefiles[SafeName(m)].data.level_1[k].size
                                = BytesBelow(fs, SubdirSeq(fs, m)[i])

\* ---------------------------------------------------------------------
\* Writers of one snapshot file
\* ---------------------------------------------------------------------

\* The timestamp of the snapshot the step's writer holds: the reconciler's
\* corrected copy, or the snapshot of the rebuild thread that takes the step.
WriterStamp ==
    IF fixer' # fixer THEN fixer.data.v.timestamp
    ELSE LET w == CHOOSE ms \in {x \in (DOMAIN task) \X (1..MaxTasks) :
                                   task'[x[1]][x[2]] # task[x[1]][x[2]]} : TRUE
         IN task[w[1]][w[2]].hier.v.timestamp

\* The step opens or rewrites snapshot file f, which holds a snapshot.
Overwrites(f) ==
    /\ cachefiles[f].kind = "json"
    /\ cachefiles'[f] # cachefiles[f]
    /\ cachefiles'[f].kind # "none"

\* C28: a snapshot file that holds a snapshot is opened for writing or
\* rewritten only by a writer whose own snapshot is not older than the one
\* in the file; the reconciler does not put its corrected copy of an earlier
\* snapshot in the place of a newer one.
C28_NewestSnapshotWins ==
    [][\A f \in DOMAIN cachefiles :
          Overwrites(f) => WriterStamp >= cachefiles[f].data.timestamp]_vars

\* A rebuild thread of a volume whose snapshot file is f opens the file for
\* writing in this step.
RebuildOpens(f) ==
    \E m \in DOMAIN task, s \in 1..MaxTasks :
        /\ SafeName(m) = f
        /\ task[m][s].pc = "persist"
        /\ task'[m][s].pc = "dump"

\* C29: a snapshot file that does not exist, the one removed by a manual
\* refresh included, comes into existence only by a rebuild thread of its
\* volume opening it; the reconciler creates no snapshot file.
C29_DeletedStaysDeleted ==
    [][\A f \in DOMAIN cachefiles :
          (cachefiles[f].kind = "none" /\ cachefiles'[f].kind # "none")
             => RebuildOpens(f)]_vars

\* ---------------------------------------------------------------------
\* The order of the nodes in a persisted snapshot
\* ---------------------------------------------------------------------

\* Every list of the snapshot has its largest node first.
SortedSnapshot(data) ==
    /\ SortedDesc(data.level_1)
    /\ \A i \in 1..Len(data.level_1) :
          /\ SortedDesc(data.level_1[i].level_2)
          /\ \A j \in 1..Len(data.level_1[i].level_2) :
                SortedDesc(data.level_1[i].level_2[j].level_3)

\* C30: every snapshot file that holds a snapshot has the nodes of its
\* level-1 list, of each level_2 list and of each level_3 list in
\* non-increasing order of size, also after reconciler passes.
C30_SortedOrderInvariant ==
    \A f \in DOMAIN cachefiles :
        cachefiles[f].kind = "json" => SortedSnapshot(cachefiles[f].data)

\* ---------------------------------------------------------------------
\* Passes of the reconciler one after the other
\* ---------------------------------------------------------------------

\* Every level-1 and level-2 node is at least the sum of its children.
Consistent(data) ==
    \A i \in 1..Len(data.level_1) :
        /\ data.level_1[i].size >= SumSeq(Sizes(data.level_1[i].level_2))
        /\ \A j \in 1..Len(data.level_1[i].level_2) :
              data.level_1[i].level_2[j].size
                 >= SumSeq(Sizes(data.level_1[i].level_2[j].level_3))

\* C31: with the reconciler the only writer, the snapshot a pass leaves is
\* brought by the next pass to one in which every level-1 and level-2 node
\* is at least the sum of its children; and a pass that reads such a
\* snapshot corrects nothing, does not open the snapshot file and writes no
\* record file.
C31_ReconcilerConvergence ==
    [][\A f \in DOMAIN cachefiles :
          (FixRead(f) /\ cachefiles[f].kind = "json")
             => /\ fixer'.before = Val(cachefiles[f].data)
                /\ Consistent(FixData(fixer'.data.v))
                /\ Consistent(cachefiles[f].data)
                      => /\ fixer'.data = fixer'.before
                         /\ fixer'.pc = "scan"
                         /\ recs' = recs
                         /\ cachefiles' = cachefiles]_vars

\* A pass has corrected nothing in a snapshot in which an earlier pass had
\* raised the level-2 node to 5 and a later one the level-1 node to 5, the
\* level-2 node being the only child.
C31_Witness ==
    /\ fixer.pc = "scan"
    /\ fixer.before # None
    /\ fixer.data = fixer.before
    /\ Consistent(fixer.data.v)
    /\ Len(fixer.data.v.level_1[1].level_2) = 1
    /\ RecordAcceptable(PathA) /\ recs[PathA].data.size = 5
    /\ RecordAcceptable(PathB) /\ recs[PathB].data.size = 5
    /\ recs[PathA].data.timestamp > recs[PathB].data.timestamp

\* ---------------------------------------------------------------------
\* What a pass leaves as it was
\* ---------------------------------------------------------------------

\* Snapshot b is snapshot a but for the sizes of level-1 and level-2 nodes:
\* same keys and values outside level_1, same nodes in the same order with
\* the same paths, same level_3 lists.
SameButSizes(a, b) ==
    /\ DOMAIN b = DOMAIN a
    /\ \A key \in DOMAIN a \ {"level_1"} : b[key] = a[key]
    /\ Len(b.level_1) = Len(a.level_1)
    /\ \A i \in 1..Len(a.level_1) :
          /\ DOMAIN b.level_1[i] = DOMAIN a.level_1[i]
          /\ b.level_1[i].path = a.level_1[i].path
          /\ Len(b.level_1[i].level_2) = Len(a.level_1[i].level_2)
          /\ \A j \in 1..Len(a.level_1[i].level_2) :
                /\ DOMAIN b.level_1[i].level_2[j] = DOMAIN a.level_1[i].level_2[j]
                /\ b.level_1[i].level_2[j].path = a.level_1[i].level_2[j].path
                /\ b.level_1[i].level_2[j].level_3 = a.level_1[i].level_2[j].level_3

\* C32: the snapshot a reconciler pass writes is the snapshot it read but for
\* the sizes of level-1 and level-2 nodes: timestamp, disk_mount, percent,
\* the nodes, their order and paths and the level-3 sizes are the same; the
\* written snapshot is outdated exactly when the one read was; and a pass
\* that opens the file of a volume the scheduler would rebuild at its next
\* pass (no loadable snapshot or an outdated one, no rebuild running) leaves
\* it a volume the scheduler would rebuild.
C32_ReconcilerFrame ==
    [][\A f \in DOMAIN cachefiles :
          /\ (FixRead(f) /\ cachefiles[f].kind = "json")
                => /\ SameButSizes(cachefiles[f].data, fixer'.data.v)
                   /\ cachefiles' = cachefiles
          /\ (FixTrunc /\ fixer.file = f)
                => ((/\ is_cache_outdated(now, load_cache(cachefiles, Vol).ts)
                        /\ \A s \in 1..MaxTasks : ~Alive(task[Vol][s]))
                       => is_cache_outdated(now, Val(fixer.data.v.timestamp)))
          /\ (FixDump /\ fixer.file = f /\ fixer.pc = "dump")
                => /\ cachefiles'[f].kind = "json"
                   /\ SameButSizes(fixer.before.v, cachefiles'[f].data)
                   /\ is_cache_outdated(now, load_cache(cachefiles', Vol).ts)
                         <=> is_cache_outdated(now, Val(fixer.before.v.timestamp))]_vars

\* ---------------------------------------------------------------------
\* Computing a size again after the records have expired
\* ---------------------------------------------------------------------

\* Times the records are left to expire.
MaxWaits == 2

\* The tree of CalcDirs with every directory writable and no record file.
InitExpiry ==
    /\ now = StartNow
    /\ fs = [d \in CalcDirs |->
               IF d = Vol THEN Dir(1, 1, "rwx", <<File(2, TRUE)>>)
               ELSE IF d = Join(Vol, "p")
                    THEN Dir(1, 2, "rwx", <<File(1, FALSE), File(3, TRUE)>>)
               ELSE IF d = Join(Vol, "q") THEN Dir(1, 3, "rwx", <<File(1, TRUE)>>)
               ELSE Dir(1, 4, "rwx", <<>>)]
    /\ recs = [d \in CalcDirs |-> NoFile]
    /\ cachefiles = <<>>
    /\ active_threads = <<>>
    /\ task = <<>>
    /\ mainloop = IdleMain
    /\ fixer = IdleFixer
    /\ obs = NoCall

\* More than FOLDER_CACHE_VALIDITY_HOURS pass: every record written so far
\* is too old for line 243.
Expire ==
    /\ now < StartNow + MaxWaits * (FOLDER_CACHE_VALIDITY_HOURS + 1)
    /\ now' = now + FOLDER_CACHE_VALIDITY_HOURS + 1
    /\ obs' = NoCall
    /\ UNCHANGED <<fs, recs, cachefiles, active_threads, task, mainloop, fixer>>

\* Calls of the calculator whose walks are not cut short, an hour apart or
\* more than FOLDER_CACHE_VALIDITY_HOURS apart.
NextExpiry ==
    \/ \E d \in DOMAIN fs : CallCalc(d, Cardinality(DOMAIN fs))
    \/ Expire

SpecExpiry == InitExpiry /\ [][NextExpiry]_vars

\* C33: on a tree whose user files do not change, a call of
\* calculate_folder_size_with_cache that walks a directory whose record, left
\* by an earlier computation, has expired returns the size that record
\* holds: the record files add nothing to the size.
C33_RecordFilesNotCounted ==
    [][\A d \in DOMAIN fs :
          (/\ CallCalc(d, Cardinality(DOMAIN fs))
           /\ obs'.walked
           /\ recs[d].kind = "json")
          => obs'.ret = Val(recs[d].data.size)]_vars

====
